---------------------------- MODULE Spec2Model ----------------------------
(***************************************************************************)
(* Random access into a single-stream gzip file (package gzran): the       *)
(* DEFLATE decoder (flate.Decompressor), the gzip framing (gzip.Reader),   *)
(* the index of access points (BuildIndex, addPoint) and the extraction    *)
(* through a restored decoder (inflateResume, Extract).                    *)
(*                                                                         *)
(* Conventions.  Go slices and arrays are 0-indexed; the model keeps them  *)
(* as TLA+ sequences and reads index i with At(s, i).  A 32-bit value that *)
(* can exceed 2^31 (a CRC-32, a little-endian word of the trailer) is kept *)
(* as the pair <<high 16 bits, low 16 bits>>.  A Go pointer to a Huffman   *)
(* table is a tagged reference (see the section on pointers).  An error    *)
(* value is a record [kind, off, cause].                                   *)
(*                                                                         *)
(* Scale.  The history ring and the span are the program's constants       *)
(* MaxHist and span, scaled from 32768 and 2^20 down to sizes a model      *)
(* checker can fill and wrap; span stays a multiple of MaxHist as in the   *)
(* program (2^20 = 32 * 32768).  All other constants have their values.    *)
(***************************************************************************)
EXTENDS Integers, Sequences, FiniteSets, TLC

(***************************************************************************)
(* Program constants.                                                      *)
(***************************************************************************)
maxCodeLen == 16
MaxHist == 4
MaxLit == 286
MaxDist == 32
NumCodes == 19
huffmanChunkBits == 9
huffmanNumChunks == 512
huffmanCountMask == 15
huffmanValueShift == 4
span == 8
BufLen == 512

(***************************************************************************)
(* Sequences as 0-indexed arrays, and bit arithmetic on naturals.          *)
(***************************************************************************)
At(s, i) == s[i + 1]

Put(s, i, v) == [s EXCEPT ![i + 1] = v]

\* the sequence s, evaluated once into a tuple
Seq1(s) == s \o << >>

Zeros(n) == Seq1([i \in 1..n |-> 0])

Min2(a, b) == IF a < b THEN a ELSE b

Pow2(n) == 2 ^ n

\* x >> n
Shr(x, n) == x \div Pow2(n)

\* x & (1<<n - 1)
LowBits(x, n) == x % Pow2(n)

\* uint32(c) << n for a byte c: bits shifted past bit 31 are lost; a count >= 32 gives 0
Shl32(c, n) ==
  IF n >= 32 THEN 0
  ELSE IF n <= 8 THEN c * Pow2(n)
  ELSE (c % Pow2(32 - n)) * Pow2(n)

RECURSIVE BitOr(_, _)
BitOr(a, b) ==
  IF a = 0 THEN b
  ELSE IF b = 0 THEN a
  ELSE (IF a % 2 = 1 \/ b % 2 = 1 THEN 1 ELSE 0) + 2 * BitOr(a \div 2, b \div 2)

RECURSIVE BitXor(_, _)
BitXor(a, b) ==
  IF a = 0 THEN b
  ELSE IF b = 0 THEN a
  ELSE (((a % 2) + (b % 2)) % 2) + 2 * BitXor(a \div 2, b \div 2)

RECURSIVE RevBits(_, _)
\* the low n bits of x in reverse order
RevBits(x, n) == IF n = 0 THEN 0 ELSE (x % 2) * Pow2(n - 1) + RevBits(x \div 2, n - 1)

\* reverseByte[b], the table of package flate
reverseByte == [b \in 0..255 |-> RevBits(b, 8)]

\* int(reverseByte[code>>8]) | int(reverseByte[code&0xff])<<8
Reverse16(code) == reverseByte[code \div 256] + reverseByte[code % 256] * 256

(***************************************************************************)
(* Errors.                                                                 *)
(***************************************************************************)
Error(kind, off, cause) == [kind |-> kind, off |-> off, cause |-> cause]

ErrNil == Error("nil", 0, "")

EOF == Error("EOF", 0, "")

ErrUnexpectedEOF == Error("ErrUnexpectedEOF", 0, "")

CorruptInputError(off) == Error("CorruptInputError", off, "")

InternalError(msg) == Error("InternalError", 0, msg)

ReadError(off, err) == Error("ReadError", off, err.kind)

ErrChecksum == Error("ErrChecksum", 0, "")

ErrHeader == Error("ErrHeader", 0, "")

(***************************************************************************)
(* HuffmanDecoder.                                                         *)
(***************************************************************************)
ZeroHuffman ==
  [Min |-> 0, Chunks |-> Zeros(huffmanNumChunks), Links |-> << >>, LinkMask |-> 0]

\* min and max of the non-zero code lengths (0 when there is none)
MinLen(bits) ==
  LET nz == {bits[i] : i \in DOMAIN bits} \ {0}
  IN IF nz = {} THEN 0 ELSE CHOOSE m \in nz : \A x \in nz : m <= x

MaxLen(bits) ==
  LET nz == {bits[i] : i \in DOMAIN bits} \ {0}
  IN IF nz = {} THEN 0 ELSE CHOOSE m \in nz : \A x \in nz : m >= x

\* count[n] of init: the number of symbols of each length
CountLen(bits) ==
  [n \in 0..(maxCodeLen - 1) |-> Cardinality({i \in DOMAIN bits : bits[i] = n})]

RECURSIVE FirstCode(_, _, _)
\* the value of `code` when the first loop of init reaches length i
FirstCode(count, min, i) ==
  IF i <= min THEN 0
  ELSE (FirstCode(count, min, i - 1) + count[i - 1]) * 2

\* the link tables created when the first loop reaches huffmanChunkBits+1
LinkTables(h, count, min, max) ==
  LET link == FirstCode(count, min, huffmanChunkBits + 1) \div 2
      linkBits == max - huffmanChunkBits
      slot(c) == RevBits(c, huffmanChunkBits)
  IN IF huffmanNumChunks < link
       THEN [ok |-> FALSE, h |-> h]
       ELSE [ok |-> TRUE,
             h |-> [h EXCEPT
               !.Links = Seq1([off \in 1..(huffmanNumChunks - link) |->
                                 Zeros(Pow2(linkBits))]),
               !.Chunks = Seq1([c \in 1..huffmanNumChunks |->
                  IF slot(c - 1) >= link
                    THEN (slot(c - 1) - link) * Pow2(huffmanValueShift)
                         + (huffmanChunkBits + 1)
                    ELSE h.Chunks[c]])]]

SetMax(S) == CHOOSE m \in S : \A x \in S : m >= x

SetMin(S) == CHOOSE m \in S : \A x \in S : m <= x

(***************************************************************************)
(* The second loop of init visits the symbols in increasing order and      *)
(* writes, for symbol i of length n, the chunk i<<4|n into every slot of   *)
(* the direct table (n <= 9) or of one link table (n > 9) that ends with   *)
(* the reversed code; it returns false at the first long code whose direct *)
(* slot does not name a link table.  FillCodes gives the tables that loop  *)
(* leaves: each slot holds what the last symbol to write it wrote, among   *)
(* the symbols visited before the loop stopped.                            *)
(***************************************************************************)
FillCodes(h, bits, nextcode, numLinks) ==
  LET N == Len(bits)
      syms == {i \in 0..(N - 1) : At(bits, i) # 0}
      short == {i \in syms : At(bits, i) <= huffmanChunkBits}
      long == syms \ short
      \* code := nextcode[n]; nextcode[n]++
      code == Seq1([k \in 1..N |->
                 IF bits[k] = 0 THEN 0
                 ELSE nextcode[bits[k]]
                      + Cardinality({j \in syms : j < k - 1 /\ At(bits, j) = bits[k]})])
      reverse == Seq1([k \in 1..N |->
                 IF bits[k] = 0 THEN 0 ELSE Shr(Reverse16(code[k]), 16 - bits[k])])
      chunk(i) == i * Pow2(huffmanValueShift) + At(bits, i)
      \* h.Chunks[c] when the loop reaches symbol k
      chunkBefore(k, c) ==
        LET w == {i \in short : i < k /\ c >= At(reverse, i)
                                 /\ (c - At(reverse, i)) % Pow2(At(bits, i)) = 0}
        IN IF w = {} THEN At(h.Chunks, c) ELSE chunk(SetMax(w))
      value == Seq1([k \in 1..N |->
                 IF (k - 1) \in long
                   THEN Shr(chunkBefore(k - 1, reverse[k] % huffmanNumChunks),
                            huffmanValueShift)
                   ELSE 0])
      bad == {i \in long : At(value, i) >= Len(h.Links)}
      stop == IF bad = {} THEN N ELSE SetMin(bad)
      linkEntry(v, o) ==
        LET w == {i \in long :
                    /\ i < stop
                    /\ At(value, i) = v
                    /\ o >= Shr(At(reverse, i), huffmanChunkBits)
                    /\ o < numLinks
                    /\ (o - Shr(At(reverse, i), huffmanChunkBits))
                          % Pow2(At(bits, i) - huffmanChunkBits) = 0}
        IN IF w = {} THEN At(At(h.Links, v), o) ELSE chunk(SetMax(w))
  IN [ok |-> bad = {},
      h |-> [h EXCEPT
        !.Chunks = Seq1([c \in 1..huffmanNumChunks |-> chunkBefore(stop, c - 1)]),
        !.Links = Seq1([v \in 1..Len(h.Links) |->
                     Seq1([o \in 1..Len(h.Links[v]) |-> linkEntry(v - 1, o - 1)])])]]

\* (h *HuffmanDecoder) init(bits): [ok, h]
HuffmanInit(h0, bits) ==
  LET hz == IF h0.Min # 0 THEN ZeroHuffman ELSE h0
      min == MinLen(bits)
      max == MaxLen(bits)
      count == CountLen(bits)
  IN IF max = 0 THEN [ok |-> FALSE, h |-> hz]
     ELSE
       LET numLinks == IF max > huffmanChunkBits THEN Pow2(max - huffmanChunkBits) ELSE 0
           hm == [hz EXCEPT !.Min = min,
                            !.LinkMask = IF max > huffmanChunkBits THEN numLinks - 1 ELSE @]
           lt == IF min <= huffmanChunkBits + 1 /\ huffmanChunkBits + 1 <= max
                   THEN LinkTables(hm, count, min, max)
                   ELSE [ok |-> TRUE, h |-> hm]
           nextcode == [n \in 1..(maxCodeLen - 1) |-> FirstCode(count, min, n)]
       IN IF ~lt.ok THEN lt
          ELSE FillCodes(lt.h, bits, nextcode, numLinks)

\* var fixedHuffmanDecoder of fixedhuff.go: the table that init builds from the code
\* lengths of the fixed Huffman code (RFC 1951, section 3.2.6: 8 bits for 0..143,
\* 9 for 144..255, 7 for 256..279, 8 for 280..287), written out as the generated
\* file has it
fixedHuffmanDecoder ==
  [Min |-> 7, Links |-> << >>, LinkMask |-> 0,
   Chunks |-> <<
     4103, 1288, 264, 4488, 4359, 1800, 776, 3081, 4231, 1544, 520, 2569, 8, 2056, 1032, 3593,
     4167, 1416, 392, 2313, 4423, 1928, 904, 3337, 4295, 1672, 648, 2825, 136, 2184, 1160, 3849,
     4135, 1352, 328, 4552, 4391, 1864, 840, 3209, 4263, 1608, 584, 2697, 72, 2120, 1096, 3721,
     4199, 1480, 456, 2441, 4455, 1992, 968, 3465, 4327, 1736, 712, 2953, 200, 2248, 1224, 3977,
     4119, 1320, 296, 4520, 4375, 1832, 808, 3145, 4247, 1576, 552, 2633, 40, 2088, 1064, 3657,
     4183, 1448, 424, 2377, 4439, 1960, 936, 3401, 4311, 1704, 680, 2889, 168, 2216, 1192, 3913,
     4151, 1384, 360, 4584, 4407, 1896, 872, 3273, 4279, 1640, 616, 2761, 104, 2152, 1128, 3785,
     4215, 1512, 488, 2505, 4471, 2024, 1000, 3529, 4343, 1768, 744, 3017, 232, 2280, 1256, 4041,
     4103, 1304, 280, 4504, 4359, 1816, 792, 3113, 4231, 1560, 536, 2601, 24, 2072, 1048, 3625,
     4167, 1432, 408, 2345, 4423, 1944, 920, 3369, 4295, 1688, 664, 2857, 152, 2200, 1176, 3881,
     4135, 1368, 344, 4568, 4391, 1880, 856, 3241, 4263, 1624, 600, 2729, 88, 2136, 1112, 3753,
     4199, 1496, 472, 2473, 4455, 2008, 984, 3497, 4327, 1752, 728, 2985, 216, 2264, 1240, 4009,
     4119, 1336, 312, 4536, 4375, 1848, 824, 3177, 4247, 1592, 568, 2665, 56, 2104, 1080, 3689,
     4183, 1464, 440, 2409, 4439, 1976, 952, 3433, 4311, 1720, 696, 2921, 184, 2232, 1208, 3945,
     4151, 1400, 376, 4600, 4407, 1912, 888, 3305, 4279, 1656, 632, 2793, 120, 2168, 1144, 3817,
     4215, 1528, 504, 2537, 4471, 2040, 1016, 3561, 4343, 1784, 760, 3049, 248, 2296, 1272, 4073,
     4103, 1288, 264, 4488, 4359, 1800, 776, 3097, 4231, 1544, 520, 2585, 8, 2056, 1032, 3609,
     4167, 1416, 392, 2329, 4423, 1928, 904, 3353, 4295, 1672, 648, 2841, 136, 2184, 1160, 3865,
     4135, 1352, 328, 4552, 4391, 1864, 840, 3225, 4263, 1608, 584, 2713, 72, 2120, 1096, 3737,
     4199, 1480, 456, 2457, 4455, 1992, 968, 3481, 4327, 1736, 712, 2969, 200, 2248, 1224, 3993,
     4119, 1320, 296, 4520, 4375, 1832, 808, 3161, 4247, 1576, 552, 2649, 40, 2088, 1064, 3673,
     4183, 1448, 424, 2393, 4439, 1960, 936, 3417, 4311, 1704, 680, 2905, 168, 2216, 1192, 3929,
     4151, 1384, 360, 4584, 4407, 1896, 872, 3289, 4279, 1640, 616, 2777, 104, 2152, 1128, 3801,
     4215, 1512, 488, 2521, 4471, 2024, 1000, 3545, 4343, 1768, 744, 3033, 232, 2280, 1256, 4057,
     4103, 1304, 280, 4504, 4359, 1816, 792, 3129, 4231, 1560, 536, 2617, 24, 2072, 1048, 3641,
     4167, 1432, 408, 2361, 4423, 1944, 920, 3385, 4295, 1688, 664, 2873, 152, 2200, 1176, 3897,
     4135, 1368, 344, 4568, 4391, 1880, 856, 3257, 4263, 1624, 600, 2745, 88, 2136, 1112, 3769,
     4199, 1496, 472, 2489, 4455, 2008, 984, 3513, 4327, 1752, 728, 3001, 216, 2264, 1240, 4025,
     4119, 1336, 312, 4536, 4375, 1848, 824, 3193, 4247, 1592, 568, 2681, 56, 2104, 1080, 3705,
     4183, 1464, 440, 2425, 4439, 1976, 952, 3449, 4311, 1720, 696, 2937, 184, 2232, 1208, 3961,
     4151, 1400, 376, 4600, 4407, 1912, 888, 3321, 4279, 1656, 632, 2809, 120, 2168, 1144, 3833,
     4215, 1528, 504, 2553, 4471, 2040, 1016, 3577, 4343, 1784, 760, 3065, 248, 2296, 1272, 4089 >>]

(***************************************************************************)
(* Pointers to Huffman tables.  Hl and Hd of a Decompressor (hl and hd of  *)
(* a point) are *HuffmanDecoder: nil, the address of the owner's own H1 or *)
(* H2 field, the address of the package variable fixedHuffmanDecoder, or   *)
(* the address of a table allocated on the heap, whose contents the        *)
(* reference then carries in tab.                                          *)
(***************************************************************************)
NilPtr == [ref |-> "nil", tab |-> << >>]

OwnH1 == [ref |-> "H1", tab |-> << >>]

OwnH2 == [ref |-> "H2", tab |-> << >>]

FixedPtr == [ref |-> "fixed", tab |-> << >>]

HeapPtr(h) == [ref |-> "heap", tab |-> <<h>>]

\* *p, for a pointer p held by the decoder or point `owner`
Deref(owner, p, own1, own2) ==
  CASE p.ref = "H1" -> own1
    [] p.ref = "H2" -> own2
    [] p.ref = "fixed" -> fixedHuffmanDecoder
    [] p.ref = "heap" -> p.tab[1]

DerefF(f, p) == Deref(f, p, f.H1, f.H2)

(***************************************************************************)
(* flate.Decompressor.  R is the position of the decoder's reader in the   *)
(* file `data` it reads: the reader hands out data[R+1], data[R+2], ...    *)
(* ToRead is a slice of Hist, kept as the bounds [lo, hi) it was cut with. *)
(***************************************************************************)
NoSlice == [lo |-> 0, hi |-> 0]

SliceLen(sl) == sl.hi - sl.lo

\* flate.NewReader(r), r positioned at pos
NewReader(pos) ==
  [R |-> pos, Roffset |-> 0, Woffset |-> 0, B |-> 0, Nb |-> 0,
   H1 |-> ZeroHuffman, H2 |-> ZeroHuffman,
   Bits |-> Zeros(MaxLit + MaxDist), Codebits |-> Zeros(NumCodes),
   Hist |-> Zeros(MaxHist), Hp |-> 0, Hw |-> 0, Hfull |-> FALSE,
   Buf |-> Zeros(4), Step |-> "NextBlock", Final |-> FALSE, Err |-> ErrNil,
   ToRead |-> NoSlice, Hl |-> NilPtr, Hd |-> NilPtr, CopyLen |-> 0, CopyDist |-> 0]

\* moreBits on an accumulator of 16 bits
moreBits16(data, f) ==
  IF f.R >= Len(data)
    THEN [f |-> f, err |-> ErrUnexpectedEOF]
    ELSE [f |-> [f EXCEPT !.R = @ + 1, !.Roffset = @ + 1,
                          !.B = BitOr(@, Shl32(At(data, f.R), f.Nb)) % Pow2(16),
                          !.Nb = @ + 8],
          err |-> ErrNil]

\* (f *Decompressor) moreBits(): [f, err]
moreBits(data, f) ==
  IF f.R >= Len(data)
    THEN [f |-> f, err |-> ErrUnexpectedEOF]
    ELSE [f |-> [f EXCEPT !.R = @ + 1, !.Roffset = @ + 1,
                          !.B = BitOr(@, Shl32(At(data, f.R), f.Nb)),
                          !.Nb = @ + 8],
          err |-> ErrNil]

RECURSIVE needBits(_, _, _)
RECURSIVE needBitsMore(_, _, _)
\* for f.Nb < n { if err := f.moreBits(); err != nil { return err } }
needBits(data, f, n) ==
  IF f.Nb >= n THEN [f |-> f, err |-> ErrNil]
  ELSE needBitsMore(data, moreBits(data, f), n)

\* one round of that loop, r the result of moreBits
needBitsMore(data, r, n) ==
  IF r.err # ErrNil THEN r ELSE needBits(data, r.f, n)

\* f.B >>= n; f.Nb -= n
dropBits(f, n) == [f EXCEPT !.B = Shr(@, n), !.Nb = @ - n]

RECURSIVE huffSymLoop(_, _, _, _)
RECURSIVE huffSymChunk(_, _, _)
\* the loop of huffSym with its local n
huffSymLoop(data, f, h, n) == huffSymChunk(data, needBits(data, f, n), h)

\* one round of that loop once the bits r are there
huffSymChunk(data, r, h) ==
  IF r.err # ErrNil THEN [f |-> r.f, err |-> r.err, v |-> 0]
  ELSE
    LET chunk0 == At(h.Chunks, r.f.B % huffmanNumChunks)
        linked == chunk0 % (huffmanCountMask + 1) > huffmanChunkBits
        chunk == IF linked
                   THEN At(At(h.Links, Shr(chunk0, huffmanValueShift)),
                           Shr(r.f.B, huffmanChunkBits) % (h.LinkMask + 1))
                   ELSE chunk0
        n1 == chunk % (huffmanCountMask + 1)
    IN IF linked /\ n1 = 0
         THEN [f |-> [r.f EXCEPT !.Err = CorruptInputError(r.f.Roffset)],
               err |-> CorruptInputError(r.f.Roffset), v |-> 0]
       ELSE IF n1 <= r.f.Nb
         THEN [f |-> dropBits(r.f, n1), err |-> ErrNil, v |-> Shr(chunk, huffmanValueShift)]
       ELSE huffSymLoop(data, r.f, h, n1)

\* (f *Decompressor) huffSym(h): [f, err, v]
huffSym(data, f, h) == huffSymLoop(data, f, h, h.Min)

\* flush that does not count the bytes it hands out in Woffset
flushKeepWoffset(f, step) ==
  [f EXCEPT !.ToRead = [lo |-> f.Hw, hi |-> f.Hp],
            !.Hw = IF f.Hp = MaxHist THEN 0 ELSE f.Hp,
            !.Hp = IF f.Hp = MaxHist THEN 0 ELSE @,
            !.Hfull = IF f.Hp = MaxHist THEN TRUE ELSE @,
            !.Step = step]

\* flush that hands out Hist from its start
flushFromStart(f, step) ==
  LET full == f.Hp = MaxHist IN
  [f EXCEPT !.ToRead = [lo |-> 0, hi |-> f.Hp],
            !.Woffset = @ + (f.Hp - f.Hw),
            !.Hw = IF full THEN 0 ELSE f.Hp,
            !.Hp = IF full THEN 0 ELSE @,
            !.Hfull = IF full THEN TRUE ELSE @,
            !.Step = step]

\* flush that adds the write position Hp to Woffset
flushCountsHp(f, step) ==
  LET full == f.Hp = MaxHist IN
  [f EXCEPT !.ToRead = [lo |-> f.Hw, hi |-> f.Hp],
            !.Woffset = @ + f.Hp,
            !.Hw = IF full THEN 0 ELSE f.Hp,
            !.Hp = IF full THEN 0 ELSE @,
            !.Hfull = IF full THEN TRUE ELSE @,
            !.Step = step]

\* (f *Decompressor) flush(step)
flush(f, step) ==
  LET full == f.Hp = MaxHist IN
  [f EXCEPT !.ToRead = [lo |-> f.Hw, hi |-> f.Hp],
            !.Woffset = @ + (f.Hp - f.Hw),
            !.Hw = IF full THEN 0 ELSE f.Hp,
            !.Hp = IF full THEN 0 ELSE @,
            !.Hfull = IF full THEN TRUE ELSE @,
            !.Step = step]

RECURSIVE forwardCopy(_, _, _, _)
\* forwardCopy(mem, dst, src, n): for i := 0; i < n; i++ { mem[dst+i] = mem[src+i] }
forwardCopy(mem, dst, src, n) ==
  IF n = 0 THEN mem
  ELSE forwardCopy(Put(mem, dst, At(mem, src)), dst + 1, src + 1, n - 1)

RECURSIVE copyHistLoop(_, _)
\* the loop of copyHist with its local p: [f, full]
copyHistLoop(f, p) ==
  IF f.CopyLen <= 0 THEN [f |-> f, full |-> FALSE]
  ELSE
    LET n == Min2(Min2(f.CopyLen, MaxHist - f.Hp), MaxHist - p)
        g == [f EXCEPT !.Hist = forwardCopy(@, f.Hp, p, n),
                       !.Hp = @ + n,
                       !.CopyLen = @ - n]
        p1 == p + n
    IN IF g.Hp = MaxHist
         THEN [f |-> flush(g, "copyHuff"), full |-> TRUE]
         ELSE copyHistLoop(g, IF p1 = MaxHist THEN 0 ELSE p1)

\* copyHist that starts at 0 when the source lies before the start of Hist
copyHistNoWrap(f) ==
  LET p == f.Hp - f.CopyDist
  IN copyHistLoop(f, IF p < 0 THEN 0 ELSE p)

\* (f *Decompressor) copyHist(): [f, full]
copyHist(f) ==
  LET p == f.Hp - f.CopyDist
  IN copyHistLoop(f, IF p < 0 THEN p + MaxHist ELSE p)

\* the length that symbol v stands for, before its extra bits, and their number
lengthBase(v) ==
  CASE v < 265 -> [length |-> v - (257 - 3), n |-> 0]
    [] v >= 265 /\ v < 269 -> [length |-> v * 2 - (265 * 2 - 11), n |-> 1]
    [] v >= 269 /\ v < 273 -> [length |-> v * 4 - (269 * 4 - 19), n |-> 2]
    [] v >= 273 /\ v < 277 -> [length |-> v * 8 - (273 * 8 - 35), n |-> 3]
    [] v >= 277 /\ v < 281 -> [length |-> v * 16 - (277 * 16 - 67), n |-> 4]
    [] v >= 281 /\ v < 285 -> [length |-> v * 32 - (281 * 32 - 131), n |-> 5]
    [] OTHER -> [length |-> 258, n |-> 0]

\* the extra bits of a length, r the result of needBits: [f, err, length]
readLengthExtra(r, lb) ==
  IF r.err # ErrNil THEN [f |-> r.f, err |-> r.err, length |-> 0]
  ELSE [f |-> dropBits(r.f, lb.n), err |-> ErrNil,
        length |-> lb.length + LowBits(r.f.B, lb.n)]

\* the length of a back-reference, lb the base and extra bits of its symbol
readLengthBase(data, f, lb) ==
  IF lb.n > 0
    THEN readLengthExtra(needBits(data, f, lb.n), lb)
    ELSE [f |-> f, err |-> ErrNil, length |-> lb.length]

\* the length of a back-reference: symbol v plus its extra bits: [f, err, length]
readLength(data, f, v) == readLengthBase(data, f, lengthBase(v))

\* the 5 bits of a fixed distance code, r the result of needBits: [f, err, v]
readDistCode5(r) ==
  IF r.err # ErrNil THEN [f |-> r.f, err |-> r.err, v |-> 0]
  ELSE [f |-> dropBits(r.f, 5), err |-> ErrNil,
        v |-> reverseByte[LowBits(r.f.B, 5) * 8]]

\* the distance code: 5 reversed bits under the fixed code, a symbol of Hd otherwise
readDistCode(data, f) ==
  IF f.Hd.ref = "nil"
    THEN readDistCode5(needBits(data, f, 5))
    ELSE huffSym(data, f, DerefF(f, f.Hd))

\* the extra bits of a distance, r the result of needBits: [f, err, dist]
readDistExtra(r, nb, extra) ==
  IF r.err # ErrNil THEN [f |-> r.f, err |-> r.err, dist |-> 0]
  ELSE [f |-> dropBits(r.f, nb), err |-> ErrNil,
        dist |-> Pow2(nb + 1) + 1 + BitOr(extra, LowBits(r.f.B, nb))]

\* the distance of a back-reference from its code: [f, err, dist]
readDist(data, f, code) ==
  IF code < 4 THEN [f |-> f, err |-> ErrNil, dist |-> code + 1]
  ELSE IF code >= 30
    THEN [f |-> f, err |-> CorruptInputError(f.Roffset), dist |-> 0]
  ELSE readDistExtra(needBits(data, f, Shr(code - 2, 1)), Shr(code - 2, 1),
                     (code % 2) * Pow2(Shr(code - 2, 1)))

RECURSIVE huffmanBlock(_, _)
RECURSIVE huffmanBlockSym(_, _)
RECURSIVE huffmanBlockLength(_, _)
RECURSIVE huffmanBlockDistCode(_, _, _)
RECURSIVE huffmanBlockDist(_, _, _)
RECURSIVE huffmanBlockCopy(_, _)
\* huffmanBlock that takes a CopyLen above 0 for a copy still to be made
huffmanBlockPending(data, f) ==
  IF f.CopyLen > 0 THEN huffmanBlockCopy(data, copyHist(f))
  ELSE huffmanBlockSym(data, huffSym(data, f, DerefF(f, f.Hl)))

\* (f *Decompressor) huffmanBlock()
huffmanBlock(data, f) == huffmanBlockSym(data, huffSym(data, f, DerefF(f, f.Hl)))

\* huffmanBlock from the symbol s it read: a literal, the end of the block or a length
huffmanBlockSym(data, s) ==
  IF s.err # ErrNil THEN [s.f EXCEPT !.Err = s.err]
  ELSE IF s.v < 256 THEN
    IF s.f.Hp + 1 = MaxHist
      THEN flush([s.f EXCEPT !.Hist = Put(@, s.f.Hp, s.v), !.Hp = @ + 1], "huffmanBlock")
      ELSE huffmanBlock(data, [s.f EXCEPT !.Hist = Put(@, s.f.Hp, s.v), !.Hp = @ + 1])
  ELSE IF s.v = 256 THEN [s.f EXCEPT !.Step = "NextBlock"]
  ELSE huffmanBlockLength(data, readLength(data, s.f, s.v))

\* huffmanBlock from the length l of a back-reference
huffmanBlockLength(data, l) ==
  IF l.err # ErrNil THEN [l.f EXCEPT !.Err = l.err]
  ELSE huffmanBlockDistCode(data, readDistCode(data, l.f), l.length)

\* huffmanBlock from the distance code c
huffmanBlockDistCode(data, c, length) ==
  IF c.err # ErrNil THEN [c.f EXCEPT !.Err = c.err]
  ELSE huffmanBlockDist(data, readDist(data, c.f, c.v), length)

\* huffmanBlock from the distance d without the test of the distance against Hp
huffmanBlockDistUnchecked(data, d, length) ==
  IF d.err # ErrNil THEN [d.f EXCEPT !.Err = d.err]
  ELSE IF d.dist > MaxHist
    THEN [d.f EXCEPT !.Err = InternalError("bad history distance")]
  ELSE huffmanBlockCopy(data, copyHist([d.f EXCEPT !.CopyLen = length, !.CopyDist = d.dist]))

\* huffmanBlock from the distance d: the checks, then the copy
huffmanBlockDist(data, d, length) ==
  IF d.err # ErrNil THEN [d.f EXCEPT !.Err = d.err]
  ELSE IF d.dist > MaxHist
    THEN [d.f EXCEPT !.Err = InternalError("bad history distance")]
  ELSE IF ~d.f.Hfull /\ d.dist > d.f.Hp
    THEN [d.f EXCEPT !.Err = CorruptInputError(d.f.Roffset)]
  ELSE huffmanBlockCopy(data, copyHist([d.f EXCEPT !.CopyLen = length, !.CopyDist = d.dist]))

\* if f.copyHist() { return }; goto the next symbol
huffmanBlockCopy(data, k) == IF k.full THEN k.f ELSE huffmanBlock(data, k.f)

\* (f *Decompressor) copyHuff()
copyHuff(data, f) == huffmanBlockCopy(data, copyHist(f))

\* io.ReadFull(r, buf[0:n]) on a reader at position pos: the bytes read and the error
ReadFull(data, pos, n) ==
  LET m == IF pos >= Len(data) THEN 0 ELSE Min2(n, Len(data) - pos)
  IN [bytes |-> Seq1([i \in 1..m |-> data[pos + i]]),
      err |-> IF m = n THEN ErrNil ELSE IF m = 0 THEN EOF ELSE ErrUnexpectedEOF]

\* dst[at : at+len(bytes)] = bytes
Overwrite(dst, at, bytes) ==
  Seq1([i \in 1..Len(dst) |->
          IF i > at /\ i <= at + Len(bytes) THEN bytes[i - at] ELSE dst[i]])

RECURSIVE copyDataLoopNoCount(_, _, _)
\* the loop of copyData when it suspends without saving the count left
copyDataLoopNoCount(data, f, n) ==
  IF n <= 0 THEN [f EXCEPT !.Step = "NextBlock"]
  ELSE
    LET m == Min2(MaxHist - f.Hp, n)
        rd == ReadFull(data, f.R, m)
        g == [f EXCEPT !.Hist = Overwrite(@, f.Hp, rd.bytes),
                       !.R = @ + Len(rd.bytes),
                       !.Roffset = @ + Len(rd.bytes)]
    IN IF rd.err # ErrNil THEN [g EXCEPT !.Err = ReadError(g.Roffset, rd.err)]
       ELSE
         LET g1 == [g EXCEPT !.Hp = @ + m] IN
         IF g1.Hp = MaxHist
           THEN flush(g1, "copyData")
           ELSE copyDataLoopNoCount(data, g1, n - m)

RECURSIVE copyDataLoop(_, _, _)
\* the loop of copyData with its local n
copyDataLoop(data, f, n) ==
  IF n <= 0 THEN [f EXCEPT !.Step = "NextBlock"]
  ELSE
    LET m == Min2(MaxHist - f.Hp, n)
        rd == ReadFull(data, f.R, m)
        g == [f EXCEPT !.Hist = Overwrite(@, f.Hp, rd.bytes),
                       !.R = @ + Len(rd.bytes),
                       !.Roffset = @ + Len(rd.bytes)]
    IN IF rd.err # ErrNil THEN [g EXCEPT !.Err = ReadError(g.Roffset, rd.err)]
       ELSE
         LET g1 == [g EXCEPT !.Hp = @ + m] IN
         IF g1.Hp = MaxHist
           THEN flush([g1 EXCEPT !.CopyLen = n - m], "copyData")
           ELSE copyDataLoop(data, g1, n - m)

\* (f *Decompressor) copyData()
copyData(data, f) == copyDataLoop(data, f, f.CopyLen)

\* dataBlock that takes LEN without looking at NLEN
dataBlockNoCheck(data, f) ==
  LET rd == ReadFull(data, f.R, 4)
      g == [f EXCEPT !.Nb = 0, !.B = 0,
                     !.Buf = Overwrite(@, 0, rd.bytes),
                     !.R = @ + Len(rd.bytes),
                     !.Roffset = @ + Len(rd.bytes)]
      n == At(g.Buf, 0) + At(g.Buf, 1) * 256
  IN IF rd.err # ErrNil THEN [g EXCEPT !.Err = ReadError(g.Roffset, rd.err)]
     ELSE IF n = 0 THEN flush(g, "NextBlock")
     ELSE copyData(data, [g EXCEPT !.CopyLen = n])

\* (f *Decompressor) dataBlock()
dataBlock(data, f) ==
  LET rd == ReadFull(data, f.R, 4)
      g == [f EXCEPT !.Nb = 0, !.B = 0,
                     !.Buf = Overwrite(@, 0, rd.bytes),
                     !.R = @ + Len(rd.bytes),
                     !.Roffset = @ + Len(rd.bytes)]
      n == At(g.Buf, 0) + At(g.Buf, 1) * 256
      nn == At(g.Buf, 2) + At(g.Buf, 3) * 256
  IN IF rd.err # ErrNil THEN [g EXCEPT !.Err = ReadError(g.Roffset, rd.err)]
     ELSE IF nn # 65535 - n THEN [g EXCEPT !.Err = CorruptInputError(g.Roffset)]
     ELSE IF n = 0 THEN flush(g, "NextBlock")
     ELSE copyData(data, [g EXCEPT !.CopyLen = n])

codeOrder == <<16, 17, 18, 0, 8, 7, 9, 6, 10, 5, 11, 4, 12, 3, 13, 2, 14, 1, 15>>

RECURSIVE readCodebits(_, _, _, _)
RECURSIVE readCodebitsAt(_, _, _, _)
\* the (HCLEN+4) 3-bit code lengths of readHuffman, from index i on: [f, err]
readCodebits(data, f, i, nclen) ==
  IF i >= nclen THEN [f |-> f, err |-> ErrNil]
  ELSE readCodebitsAt(data, needBits(data, f, 3), i, nclen)

\* f.Codebits[codeOrder[i]] = int(f.B & 0x7), r the result of needBits
readCodebitsAt(data, r, i, nclen) ==
  IF r.err # ErrNil THEN r
  ELSE readCodebits(data,
         dropBits([r.f EXCEPT !.Codebits = Put(@, At(codeOrder, i), LowBits(r.f.B, 3))], 3),
         i + 1, nclen)

\* Bits[i : i+rep] = b
FillBits(bits, i, rep, b) ==
  Seq1([k \in 1..Len(bits) |-> IF k > i /\ k <= i + rep THEN b ELSE bits[k]])

RECURSIVE readLengths(_, _, _, _)
RECURSIVE readLengthsSym(_, _, _, _)
RECURSIVE readLengthsRep(_, _, _, _, _, _, _)
\* the HLIT+257 and HDIST+1 code lengths of readHuffman, from index i on: [f, err]
readLengths(data, f, i, n) ==
  IF i >= n THEN [f |-> f, err |-> ErrNil]
  ELSE readLengthsSym(data, huffSym(data, f, f.H1), i, n)

\* one length or one repeat code s
readLengthsSym(data, s, i, n) ==
  IF s.err # ErrNil THEN [f |-> s.f, err |-> s.err]
  ELSE IF s.v < 16
    THEN readLengths(data, [s.f EXCEPT !.Bits = Put(@, i, s.v)], i + 1, n)
  ELSE IF s.v > 18
    THEN [f |-> s.f, err |-> InternalError("unexpected length code")]
  ELSE IF s.v = 16 /\ i = 0
    THEN [f |-> s.f, err |-> CorruptInputError(s.f.Roffset)]
  ELSE readLengthsRep(data,
         needBits(data, s.f, CASE s.v = 16 -> 2 [] s.v = 17 -> 3 [] s.v = 18 -> 7),
         IF s.v = 18 THEN 11 ELSE 3,
         CASE s.v = 16 -> 2 [] s.v = 17 -> 3 [] s.v = 18 -> 7,
         IF s.v = 16 THEN At(s.f.Bits, i - 1) ELSE 0,
         i, n)

\* the repeat: rep + the nb extra bits copies of b, r the result of needBits
readLengthsRep(data, r, rep0, nb, b, i, n) ==
  IF r.err # ErrNil THEN r
  ELSE IF i + rep0 + LowBits(r.f.B, nb) > n
    THEN [f |-> dropBits(r.f, nb), err |-> CorruptInputError(r.f.Roffset)]
  ELSE readLengths(data,
         [dropBits(r.f, nb) EXCEPT !.Bits = FillBits(@, i, rep0 + LowBits(r.f.B, nb), b)],
         i + rep0 + LowBits(r.f.B, nb), n)

\* s[lo:hi]
Slice(s, lo, hi) == Seq1([k \in 1..(hi - lo) |-> s[lo + k]])

\* the end of readHuffman: f.H2.init, j2 its result
readHuffmanInit2(g, j2) ==
  [f |-> [g EXCEPT !.H2 = j2.h],
   err |-> IF ~j2.ok THEN CorruptInputError(g.Roffset) ELSE ErrNil]

\* f.H1.init, j1 its result, then f.H2.init
readHuffmanInit1(g, j1, nlit, ndist) ==
  IF ~j1.ok THEN [f |-> [g EXCEPT !.H1 = j1.h], err |-> CorruptInputError(g.Roffset)]
  ELSE readHuffmanInit2([g EXCEPT !.H1 = j1.h],
                        HuffmanInit(g.H2, Slice(g.Bits, nlit, nlit + ndist)))

\* readHuffman once the lengths l are read
readHuffmanLengths(l, nlit, ndist) ==
  IF l.err # ErrNil THEN l
  ELSE readHuffmanInit1(l.f, HuffmanInit(l.f.H1, Slice(l.f.Bits, 0, nlit)), nlit, ndist)

\* readHuffman once the code length code i1 is built from Codebits
readHuffmanCodes(data, g, i1, nlit, ndist) ==
  IF ~i1.ok THEN [f |-> [g EXCEPT !.H1 = i1.h], err |-> CorruptInputError(g.Roffset)]
  ELSE readHuffmanLengths(readLengths(data, [g EXCEPT !.H1 = i1.h], 0, nlit + ndist),
                          nlit, ndist)

\* for i := nclen; i < len(codeOrder); i++ { f.Codebits[codeOrder[i]] = 0 }
clearCodebits(codebits, nclen) ==
  Seq1([k \in 1..NumCodes |->
          IF \E i \in nclen..(NumCodes - 1) : At(codeOrder, i) = k - 1
            THEN 0 ELSE codebits[k]])

\* readHuffman once the nclen code length code lengths c are read
readHuffmanCodebits(data, c, nclen, nlit, ndist) ==
  IF c.err # ErrNil THEN c
  ELSE readHuffmanCodes(data, [c.f EXCEPT !.Codebits = clearCodebits(@, nclen)],
                        HuffmanInit(c.f.H1, clearCodebits(c.f.Codebits, nclen)),
                        nlit, ndist)

\* readHuffman that takes any HLIT
readHuffmanCountsNoLimit(data, r) ==
  IF r.err # ErrNil THEN r
  ELSE readHuffmanCodebits(data,
         readCodebits(data, dropBits(r.f, 5 + 5 + 4), 0, LowBits(Shr(r.f.B, 10), 4) + 4),
         LowBits(Shr(r.f.B, 10), 4) + 4,
         LowBits(r.f.B, 5) + 257,
         LowBits(Shr(r.f.B, 5), 5) + 1)

\* readHuffman from the 14 bits of HLIT, HDIST and HCLEN, r the result of needBits
readHuffmanCounts(data, r) ==
  IF r.err # ErrNil THEN r
  ELSE IF LowBits(r.f.B, 5) + 257 > MaxLit
    THEN [f |-> r.f, err |-> CorruptInputError(r.f.Roffset)]
  ELSE readHuffmanCodebits(data,
         readCodebits(data, dropBits(r.f, 5 + 5 + 4), 0, LowBits(Shr(r.f.B, 10), 4) + 4),
         LowBits(Shr(r.f.B, 10), 4) + 4,
         LowBits(r.f.B, 5) + 257,
         LowBits(Shr(r.f.B, 5), 5) + 1)

\* (f *Decompressor) readHuffman(): [f, err]
readHuffman(data, f) == readHuffmanCounts(data, needBits(data, f, 5 + 5 + 4))

RECURSIVE headerBits(_, _)
RECURSIVE headerBitsMore(_, _)
\* for f.Nb < 1+2 { if f.Err = f.moreBits(); f.Err != nil { return } }
headerBits(data, f) ==
  IF f.Nb >= 1 + 2 THEN f ELSE headerBitsMore(data, moreBits(data, f))

\* one round of that loop, r the result of moreBits
headerBitsMore(data, r) ==
  IF r.err # ErrNil THEN [r.f EXCEPT !.Err = r.err]
  ELSE headerBits(data, [r.f EXCEPT !.Err = r.err])

\* the dynamic block once readHuffman returned r
dynamicBlock(data, r) ==
  IF r.err # ErrNil THEN [r.f EXCEPT !.Err = r.err]
  ELSE huffmanBlock(data, [r.f EXCEPT !.Err = ErrNil, !.Hl = OwnH1, !.Hd = OwnH2])

\* the switch of NextBlock on the block type, g the decoder past the 3 header bits
blockType(data, g, typ) ==
  CASE typ = 0 -> dataBlock(data, g)
    [] typ = 1 -> huffmanBlock(data, [g EXCEPT !.Hl = FixedPtr, !.Hd = NilPtr])
    [] typ = 2 -> dynamicBlock(data, readHuffman(data, g))
    [] typ = 3 -> [g EXCEPT !.Err = CorruptInputError(g.Roffset)]

\* NextBlock once the 3 header bits are in h.B, or h.Err is set
blockHeader(data, h) ==
  IF h.Err # ErrNil THEN h
  ELSE blockType(data, dropBits([h EXCEPT !.Final = (h.B % 2 = 1)], 1 + 2),
                 LowBits(Shr(h.B, 1), 2))

\* NextBlock that reports EOF as soon as the final block has ended
NextBlockEarlyEOF(data, f) ==
  IF f.Final
    THEN [f EXCEPT !.Err = EOF]
    ELSE blockHeader(data, headerBits(data, f))

\* (f *Decompressor) NextBlock()
NextBlock(data, f) ==
  IF f.Final
    THEN IF f.Hw # f.Hp THEN flush(f, "NextBlock") ELSE [f EXCEPT !.Err = EOF]
    ELSE blockHeader(data, headerBits(data, f))

\* f.Step(f): Step holds one of the four method values the decoder assigns to it
Step(data, f) ==
  CASE f.Step = "NextBlock" -> NextBlock(data, f)
    [] f.Step = "huffmanBlock" -> huffmanBlock(data, f)
    [] f.Step = "copyHuff" -> copyHuff(data, f)
    [] f.Step = "copyData" -> copyData(data, f)

\* a Read that calls f.Step once and returns what ToRead then holds
ReadAfterStep(data, f, n) ==
  IF SliceLen(f.ToRead) > 0
    THEN LET k == Min2(n, SliceLen(f.ToRead))
         IN [f |-> [f EXCEPT !.ToRead.lo = @ + k],
             bytes |-> Slice(f.Hist, f.ToRead.lo, f.ToRead.lo + k),
             err |-> ErrNil]
  ELSE IF f.Err # ErrNil THEN [f |-> f, bytes |-> << >>, err |-> f.Err]
  ELSE LET g == Step(data, f)
           k == Min2(n, SliceLen(g.ToRead))
       IN [f |-> [g EXCEPT !.ToRead.lo = @ + k],
           bytes |-> Slice(g.Hist, g.ToRead.lo, g.ToRead.lo + k),
           err |-> ErrNil]

RECURSIVE Read(_, _, _)
\* a Read that hands the error out once and forgets it
ReadErrOnce(data, f, n) ==
  IF SliceLen(f.ToRead) > 0
    THEN LET k == Min2(n, SliceLen(f.ToRead))
         IN [f |-> [f EXCEPT !.ToRead.lo = @ + k],
             bytes |-> Slice(f.Hist, f.ToRead.lo, f.ToRead.lo + k),
             err |-> ErrNil]
  ELSE IF f.Err # ErrNil
    THEN [f |-> [f EXCEPT !.Err = ErrNil], bytes |-> << >>, err |-> f.Err]
  ELSE Read(data, Step(data, f), n)

\* (f *Decompressor) Read(b) with len(b) = n: [f, bytes, err]
Read(data, f, n) ==
  IF SliceLen(f.ToRead) > 0
    THEN LET k == Min2(n, SliceLen(f.ToRead))
         IN [f |-> [f EXCEPT !.ToRead.lo = @ + k],
             bytes |-> Slice(f.Hist, f.ToRead.lo, f.ToRead.lo + k),
             err |-> ErrNil]
  ELSE IF f.Err # ErrNil THEN [f |-> f, bytes |-> << >>, err |-> f.Err]
  ELSE Read(data, Step(data, f), n)

RECURSIVE readBlock(_, _)
\* readBlock(f), gzran's copy of Read that returns all of ToRead: [f, bytes, err]
readBlock(data, f) ==
  IF SliceLen(f.ToRead) > 0
    THEN [f |-> [f EXCEPT !.ToRead.lo = f.ToRead.hi],
          bytes |-> Slice(f.Hist, f.ToRead.lo, f.ToRead.hi),
          err |-> ErrNil]
  ELSE IF f.Err # ErrNil THEN [f |-> f, bytes |-> << >>, err |-> f.Err]
  ELSE readBlock(data, Step(data, f))

(***************************************************************************)
(* hash/crc32 (IEEE), on 32-bit values kept as <<high 16, low 16>>.        *)
(***************************************************************************)
U32(n) == <<n \div 65536, n % 65536>>

Not32(c) == <<65535 - c[1], 65535 - c[2]>>

RECURSIVE crcBits(_, _)
\* k rounds of the reflected CRC-32 shift register, polynomial 0xEDB88320
crcBits(c, k) ==
  IF k = 0 THEN c
  ELSE LET sh == <<c[1] \div 2, (c[2] \div 2) + (c[1] % 2) * 32768>>
       IN crcBits(IF c[2] % 2 = 1
                    THEN <<BitXor(sh[1], 60856), BitXor(sh[2], 33568)>>
                    ELSE sh,
                  k - 1)

RECURSIVE crcBytes(_, _, _)
\* (the test on c[1] makes the running value evaluated at every byte)
crcBytes(c, p, i) ==
  IF i > Len(p) \/ c[1] < 0 THEN c
  ELSE crcBytes(crcBits(<<c[1], BitXor(c[2], p[i])>>, 8), p, i + 1)

\* the digest after Write(p), for a digest whose Sum32 was crc
crc32Update(crc, p) == Not32(crcBytes(Not32(crc), p, 1))

\* Get4(p): the little-endian word p[0..3]
Get4(p) == <<At(p, 2) + At(p, 3) * 256, At(p, 0) + At(p, 1) * 256>>

(***************************************************************************)
(* gzip.Reader.  Its reader R is the bufio.Reader that the Decompressor    *)
(* reads too (flate.NewReader keeps a reader that has ReadByte), so the    *)
(* model keeps one position for both, in the Decompressor.  Name, Comment  *)
(* and Extra hold the bytes of the Go values, so that len() is Len().  The *)
(* scratch array Buf, ModTime and OS are not kept.                         *)
(***************************************************************************)
gzipID1 == 31
gzipID2 == 139
gzipDeflate == 8
flagHdrCrc == 2
flagExtra == 4
flagName == 8
flagComment == 16

\* z.flg & flag != 0, for a flag 2^k
HasFlag(flg, flag) == (flg \div flag) % 2 = 1

ZeroReader ==
  [Flg |-> 0, Extra |-> << >>, Name |-> << >>, Comment |-> << >>,
   Digest |-> U32(0), Size |-> 0, Err |-> ErrNil, multistream |-> TRUE]

RECURSIVE Latin1(_, _)
\* string(s) for the runes s = bytes[i..]: the UTF-8 encoding of ISO 8859-1 text
Latin1(bytes, i) ==
  IF i > Len(bytes) THEN << >>
  ELSE (IF bytes[i] < 128 THEN <<bytes[i]>>
        ELSE <<192 + (bytes[i] \div 64), 128 + (bytes[i] % 64)>>) \o Latin1(bytes, i + 1)

\* the string that ends at the first zero byte, i bytes after pos
readStringAt(data, pos, i, raw) ==
  [s |-> IF \E k \in 1..i : raw[k] > 127 THEN Latin1(raw, 1) ELSE raw,
   pos |-> pos + i + 1, err |-> ErrNil]

\* readString with the places zeros of the zero bytes among the next BufLen bytes
readStringZeros(data, pos, zeros, avail) ==
  IF zeros = {}
    THEN IF avail >= BufLen
           THEN [s |-> << >>, pos |-> pos + BufLen, err |-> ErrHeader]
           ELSE [s |-> << >>, pos |-> pos + avail, err |-> EOF]
    ELSE readStringAt(data, pos, SetMin(zeros), Slice(data, pos, pos + SetMin(zeros)))

\* (z *Reader) readString(): [s, pos, err]
readString(data, pos) ==
  readStringZeros(data, pos,
    {i \in 0..(BufLen - 1) : pos + i < Len(data) /\ At(data, pos + i) = 0},
    IF pos >= Len(data) THEN 0 ELSE Len(data) - pos)

\* the two bytes rd as a little-endian number
read2Value(rd, pos) ==
  [n |-> IF rd.err = ErrNil THEN rd.bytes[1] + rd.bytes[2] * 256 ELSE 0,
   pos |-> pos + Len(rd.bytes), err |-> rd.err]

\* (z *Reader) read2(): [n, pos, err]
read2(data, pos) == read2Value(ReadFull(data, pos, 2), pos)

\* the data of the FEXTRA field, rd the result of ReadFull
readExtraData(z, pos, rd, save) ==
  [z |-> IF rd.err = ErrNil /\ save THEN [z EXCEPT !.Extra = rd.bytes] ELSE z,
   pos |-> pos + Len(rd.bytes), err |-> rd.err]

\* the FEXTRA field after its length n
readExtraLen(data, z, n, save) ==
  IF n.err # ErrNil THEN [z |-> z, pos |-> n.pos, err |-> n.err]
  ELSE readExtraData(z, n.pos, ReadFull(data, n.pos, n.n), save)

\* the FEXTRA field: [z, pos, err]
readExtra(data, z, pos, save) ==
  IF ~HasFlag(z.Flg, flagExtra) THEN [z |-> z, pos |-> pos, err |-> ErrNil]
  ELSE readExtraLen(data, z, read2(data, pos), save)

\* z.Name = s, r the result of readString
saveName(z, r, save) ==
  [z |-> IF r.err = ErrNil /\ save THEN [z EXCEPT !.Name = r.s] ELSE z,
   pos |-> r.pos, err |-> r.err]

\* the FNAME field: [z, pos, err]
readName(data, z, pos, save) ==
  IF ~HasFlag(z.Flg, flagName) THEN [z |-> z, pos |-> pos, err |-> ErrNil]
  ELSE saveName(z, readString(data, pos), save)

\* z.Comment = s, r the result of readString
saveComment(z, r, save) ==
  [z |-> IF r.err = ErrNil /\ save THEN [z EXCEPT !.Comment = r.s] ELSE z,
   pos |-> r.pos, err |-> r.err]

\* the FCOMMENT field: [z, pos, err]
readComment(data, z, pos, save) ==
  IF ~HasFlag(z.Flg, flagComment) THEN [z |-> z, pos |-> pos, err |-> ErrNil]
  ELSE saveComment(z, readString(data, pos), save)

\* n != z.Digest.Sum32() & 0xFFFF, n the result of read2
checkHdrCrc(z, n) ==
  [z |-> z, pos |-> n.pos,
   err |-> IF n.err # ErrNil THEN n.err
           ELSE IF n.n # z.Digest[2] THEN ErrHeader ELSE ErrNil]

\* the FHCRC field, checked against the digest: [z, pos, err]
readHdrCrc(data, z, pos) ==
  IF ~HasFlag(z.Flg, flagHdrCrc) THEN [z |-> z, pos |-> pos, err |-> ErrNil]
  ELSE checkHdrCrc(z, read2(data, pos))

\* the end of readHeader: z.Digest.Reset()
readHeaderEnd(hc) ==
  IF hc.err # ErrNil THEN hc
  ELSE [z |-> [hc.z EXCEPT !.Digest = U32(0)], pos |-> hc.pos, err |-> ErrNil]

\* readHeader from the FCOMMENT field cm on
readHeaderComment(data, cm) ==
  IF cm.err # ErrNil THEN cm ELSE readHeaderEnd(readHdrCrc(data, cm.z, cm.pos))

\* readHeader from the FNAME field nm on
readHeaderName(data, nm, save) ==
  IF nm.err # ErrNil THEN nm
  ELSE readHeaderComment(data, readComment(data, nm.z, nm.pos, save))

\* readHeader from the FEXTRA field xt on
readHeaderExtra(data, xt, save) ==
  IF xt.err # ErrNil THEN xt
  ELSE readHeaderName(data, readName(data, xt.z, xt.pos, save), save)

\* readHeader from the 10 fixed bytes hdr on
readHeaderFixed(data, z0, pos0, hdr, save) ==
  IF hdr.err # ErrNil THEN [z |-> z0, pos |-> pos0 + Len(hdr.bytes), err |-> hdr.err]
  ELSE IF At(hdr.bytes, 0) # gzipID1 \/ At(hdr.bytes, 1) # gzipID2
          \/ At(hdr.bytes, 2) # gzipDeflate
    THEN [z |-> z0, pos |-> pos0 + 10, err |-> ErrHeader]
  ELSE readHeaderExtra(data,
         readExtra(data, [z0 EXCEPT !.Flg = At(hdr.bytes, 3),
                                    !.Digest = crc32Update(U32(0), hdr.bytes)],
                   pos0 + 10, save),
         save)

\* (z *Reader) readHeader(save), the reader at position pos: [z, pos, err].
\* On success the caller holds a Decompressor reading from pos.
readHeader(data, z0, pos0, save) ==
  readHeaderFixed(data, z0, pos0, ReadFull(data, pos0, 10), save)

\* NewReader with h the result of readHeader
newReaderHeader(h) == [z |-> h.z, f |-> NewReader(h.pos), err |-> h.err]

\* gzip.NewReader(r), r at the start of the file: [z, f, err]
gzipNewReader(data) == newReaderHeader(readHeader(data, ZeroReader, 0, TRUE))

\* getHeaderLen(gz)
getHeaderLen(gz) ==
  10 + (IF HasFlag(gz.Flg, flagName) THEN Len(gz.Name) + 1 ELSE 0)
     + (IF HasFlag(gz.Flg, flagExtra) THEN Len(gz.Extra) + 2 ELSE 0)
     + (IF HasFlag(gz.Flg, flagComment) THEN Len(gz.Comment) + 1 ELSE 0)
     + (IF HasFlag(gz.Flg, flagHdrCrc) THEN 2 ELSE 0)

(***************************************************************************)
(* gzran: the index and its access points.                                 *)
(***************************************************************************)
\* a copy of the rows of a Links table, row by row
copyLinks(links) == Seq1([i \in 1..Len(links) |-> Seq1(links[i])])

\* flate.HuffmanDecoder{Min, Chunks, LinkMask, Links} copied from h
copyHuffmanDecoder(h) ==
  [Min |-> h.Min, Chunks |-> h.Chunks, Links |-> copyLinks(h.Links),
   LinkMask |-> h.LinkMask]

\* a copy of hl/hd that always points at a clone of the table
copyPtrDetached(p, own, target) ==
  IF p = NilPtr THEN NilPtr ELSE HeapPtr(copyHuffmanDecoder(target))

\* the hl/hd of a copy: p is the pointer copied, own the pointer to the
\* source's own table (&r.H1 or &r.H2), target the table p points at
copyPtr(p, own, target) ==
  IF p = NilPtr THEN NilPtr
  ELSE IF p = own THEN own
  ELSE HeapPtr(copyHuffmanDecoder(target))

\* (idx *Index) addPoint(gz, n), r the Decompressor of gz: the index after the call
addPoint(idx, r, n) ==
  Append(idx,
    [woffset |-> r.Woffset, roffset |-> r.Roffset, b |-> r.B, nb |-> r.Nb,
     h1 |-> copyHuffmanDecoder(r.H1), h2 |-> copyHuffmanDecoder(r.H2),
     bits |-> r.Bits, codebits |-> r.Codebits, hist |-> r.Hist,
     hp |-> r.Hp, hw |-> r.Hw, hfull |-> r.Hfull, buf |-> r.Buf,
     step |-> r.Step, final |-> r.Final, err |-> r.Err,
     hl |-> copyPtr(r.Hl, OwnH1, DerefF(r, r.Hl)),
     hd |-> copyPtr(r.Hd, OwnH2, DerefF(r, r.Hd)),
     copyLen |-> r.CopyLen, copyDist |-> r.CopyDist])

\* *p for a pointer p of the point pt
DerefP(pt, p) == Deref(pt, p, pt.h1, pt.h2)

\* inflateResume that leaves Hfull at its zero value
inflateResumeNoHfull(pos, pt) ==
  [R |-> pos, Roffset |-> pt.roffset, Woffset |-> pt.woffset,
   B |-> pt.b, Nb |-> pt.nb,
   H1 |-> copyHuffmanDecoder(pt.h1), H2 |-> copyHuffmanDecoder(pt.h2),
   Bits |-> pt.bits, Codebits |-> pt.codebits, Hist |-> pt.hist,
   Hp |-> pt.hp, Hw |-> pt.hw, Hfull |-> FALSE, Buf |-> pt.buf,
   Step |-> pt.step, Final |-> pt.final, Err |-> pt.err, ToRead |-> NoSlice,
   Hl |-> copyPtr(pt.hl, OwnH1, DerefP(pt, pt.hl)),
   Hd |-> copyPtr(pt.hd, OwnH2, DerefP(pt, pt.hd)),
   CopyLen |-> pt.copyLen, CopyDist |-> pt.copyDist]

\* inflateResume(r, pt), r positioned at pos
inflateResume(pos, pt) ==
  [R |-> pos, Roffset |-> pt.roffset, Woffset |-> pt.woffset,
   B |-> pt.b, Nb |-> pt.nb,
   H1 |-> copyHuffmanDecoder(pt.h1), H2 |-> copyHuffmanDecoder(pt.h2),
   Bits |-> pt.bits, Codebits |-> pt.codebits, Hist |-> pt.hist,
   Hp |-> pt.hp, Hw |-> pt.hw, Hfull |-> pt.hfull, Buf |-> pt.buf,
   Step |-> pt.step, Final |-> pt.final, Err |-> pt.err, ToRead |-> NoSlice,
   Hl |-> copyPtr(pt.hl, OwnH1, DerefP(pt, pt.hl)),
   Hd |-> copyPtr(pt.hd, OwnH2, DerefP(pt, pt.hd)),
   CopyLen |-> pt.copyLen, CopyDist |-> pt.copyDist]

(***************************************************************************)
(* References.  A Decompressor and a point hold their history, their       *)
(* length arrays and the link tables of h1 and h2 by reference: Hist, Bits *)
(* and Codebits are pointers to arrays, Links is a slice.  The records of  *)
(* the model hold the contents; which array a holder refers to is told by  *)
(* the holder's cell for it, and a write through one holder shows in every *)
(* holder that has the same cell.  Chunks, Buf and the scalar fields are   *)
(* values in Go and are copied by assignment.                              *)
(***************************************************************************)
\* the arrays flate.NewReader and HuffmanDecoder.init allocate for the
\* Decompressor of BuildIndex
NewReaderCells ==
  [hist |-> <<"live">>, bits |-> <<"live">>, codebits |-> <<"live">>,
   links1 |-> <<"live">>, links2 |-> <<"live">>]

\* a point whose hist is the Decompressor's own array: hist: r.Hist
addPointSharedHist(k) ==
  [hist |-> <<"live">>, bits |-> <<"point", k>>, codebits |-> <<"point", k>>,
   links1 |-> <<"point", k>>, links2 |-> <<"point", k>>]

\* the arrays addPoint allocates for point k: new([MaxHist]byte), new(...) and
\* make([][]uint32, ...) with append to nil rows, each filled by copy
addPointCells(k) ==
  [hist |-> <<"point", k>>, bits |-> <<"point", k>>, codebits |-> <<"point", k>>,
   links1 |-> <<"point", k>>, links2 |-> <<"point", k>>]

\* a restored decoder whose Hist is the point's array: Hist: pt.hist
inflateResumeSharedHist(c, k) ==
  [hist |-> <<"point", k>>, bits |-> <<"call", c>>, codebits |-> <<"call", c>>,
   links1 |-> <<"call", c>>, links2 |-> <<"call", c>>]

\* the arrays inflateResume allocates for the decoder of call c that it
\* restores from point k
inflateResumeCells(c, k) ==
  [hist |-> <<"call", c>>, bits |-> <<"call", c>>, codebits |-> <<"call", c>>,
   links1 |-> <<"call", c>>, links2 |-> <<"call", c>>]

\* the points pts after the holder of cells has written the arrays of d
writeThrough(pts, cells, d) ==
  [k \in 1..Len(pts) |->
     [pts[k] EXCEPT
        !.hist = IF addPointCells(k).hist = cells.hist THEN d.Hist ELSE @,
        !.bits = IF addPointCells(k).bits = cells.bits THEN d.Bits ELSE @,
        !.codebits = IF addPointCells(k).codebits = cells.codebits THEN d.Codebits ELSE @,
        !.h1.Links = IF addPointCells(k).links1 = cells.links1 THEN d.H1.Links ELSE @,
        !.h2.Links = IF addPointCells(k).links2 = cells.links2 THEN d.H2.Links ELSE @]]

\* the decoder e, holder of mine, after the holder of cells has written the
\* arrays of d
writeThroughDecoder(e, mine, cells, d) ==
  [e EXCEPT
     !.Hist = IF mine.hist = cells.hist THEN d.Hist ELSE @,
     !.Bits = IF mine.bits = cells.bits THEN d.Bits ELSE @,
     !.Codebits = IF mine.codebits = cells.codebits THEN d.Codebits ELSE @,
     !.H1.Links = IF mine.links1 = cells.links1 THEN d.H1.Links ELSE @,
     !.H2.Links = IF mine.links2 = cells.links2 THEN d.H2.Links ELSE @]

\* a scan from the first point forward that stops at the first match
findPointFirst(idx, offset) ==
  LET S == {i \in 1..Len(idx) : idx[i].woffset <= offset}
  IN IF S = {} THEN 0 ELSE SetMin(S)

\* the access point Extract's backward scan selects: its position in idx, 0 for nil
findPoint(idx, offset) ==
  LET S == {i \in 1..Len(idx) : idx[i].woffset <= offset}
  IN IF S = {} THEN 0 ELSE SetMax(S)

RECURSIVE extractLoop(_, _, _, _)
RECURSIVE extractRead(_, _, _, _)
\* the read loop of Extract: [fr, b, totalRead, err] when it returns
extractLoop(data, fr, b, totalRead) ==
  extractRead(data, Read(data, fr, Len(b) - totalRead), b, totalRead)

\* one round of that loop, rd the result of fr.Read(readWin)
extractRead(data, rd, b, totalRead) ==
  IF Len(rd.bytes) = 0 \/ totalRead + Len(rd.bytes) = Len(b) \/ rd.err = EOF
    THEN [fr |-> rd.f, b |-> Overwrite(b, totalRead, rd.bytes),
          totalRead |-> totalRead + Len(rd.bytes), err |-> rd.err]
    ELSE extractLoop(data, rd.f, Overwrite(b, totalRead, rd.bytes),
                     totalRead + Len(rd.bytes))

\* what a call of Extract that returned nothing leaves: its arguments (of idx
\* whether it is nil and how many points it has), the place pt of the point it
\* located (0 for a nil pt), the header length and the seek target it
\* computed, the decoder fr it read from, and what it returned
NoExtract ==
  [offset |-> 0, length |-> 0, idxNil |-> TRUE, idxLen |-> 0, called |-> FALSE,
   pt |-> 0, headerBytes |-> 0, seek |-> 0, res |-> << >>, err |-> ErrNil,
   panic |-> FALSE, fr |-> NewReader(0)]

\* return b[offset-pt.woffset:], err, lp the result of the read loop
extractReturn(call, pt, lp) ==
  [call EXCEPT !.res = Slice(lp.b, call.offset - pt.woffset, Len(lp.b)),
               !.err = lp.err, !.fr = lp.fr]

\* Extract from the seek on, pt the access point and headerBytes the header length
extractSeek(data, call, pt, headerBytes) ==
  extractReturn([call EXCEPT !.headerBytes = headerBytes,
                             !.seek = pt.roffset + headerBytes],
                pt,
                extractLoop(data, inflateResume(pt.roffset + headerBytes, pt),
                            Zeros(call.length + call.offset - pt.woffset), 0))

\* Extract once the header is read again, k the place of pt in idx (0 for a nil pt)
extractHeader(data, call, pts, k, gz) ==
  IF gz.err # ErrNil THEN [call EXCEPT !.pt = k, !.err = gz.err]
  ELSE IF k = 0 THEN [call EXCEPT !.headerBytes = getHeaderLen(gz.z), !.panic = TRUE]
  ELSE extractSeek(data, [call EXCEPT !.pt = k], pts[k], getHeaderLen(gz.z))

\* a call of Extract with its arguments, nothing located, read or returned yet
extractArgs(idx, offset, length) ==
  [NoExtract EXCEPT !.offset = offset, !.length = length, !.idxNil = idx.isNil,
                    !.idxLen = Len(idx.pts), !.called = TRUE]

\* Extract that returns at once for a negative length only
ExtractZeroLength(data, idx, offset, length) ==
  IF length < 0 \/ idx.isNil
    THEN extractArgs(idx, offset, length)
    ELSE extractHeader(data, extractArgs(idx, offset, length),
                       idx.pts, findPoint(idx.pts, offset), gzipNewReader(data))

\* Extract(filename, idx, offset, length) on the file data.  idx is
\* [isNil, pts]; the result has the returned bytes res and error err, or
\* panic when the call dereferences the nil pt.
Extract(data, idx, offset, length) ==
  IF length <= 0 \/ idx.isNil
    THEN extractArgs(idx, offset, length)
    ELSE extractHeader(data, extractArgs(idx, offset, length),
                       idx.pts, findPoint(idx.pts, offset), gzipNewReader(data))

\* a call of Extract that is not made yet: its record, its buffer b, its
\* totalRead and where it is at ("idle", "reading" in its loop, "done")
NoCall == [ex |-> NoExtract, b |-> << >>, totalRead |-> 0, at |-> "idle"]

\* Extract from the seek up to its read loop: the file is positioned, the
\* decoder restored and the buffer allocated
extractBeginSeek(call, pt, headerBytes) ==
  [ex |-> [call EXCEPT !.headerBytes = headerBytes,
                       !.seek = pt.roffset + headerBytes,
                       !.fr = inflateResume(pt.roffset + headerBytes, pt)],
   b |-> Zeros(call.length + call.offset - pt.woffset),
   totalRead |-> 0, at |-> "reading"]

\* Extract once the header is read again, up to its read loop
extractBeginHeader(call, pts, k, gz) ==
  IF gz.err # ErrNil
    THEN [NoCall EXCEPT !.ex = [call EXCEPT !.pt = k, !.err = gz.err], !.at = "done"]
  ELSE IF k = 0
    THEN [NoCall EXCEPT !.ex = [call EXCEPT !.headerBytes = getHeaderLen(gz.z),
                                            !.panic = TRUE],
                        !.at = "done"]
  ELSE extractBeginSeek([call EXCEPT !.pt = k], pts[k], getHeaderLen(gz.z))

\* Extract up to its read loop, or to its return when it does not get there
extractBegin(data, idx, offset, length) ==
  IF length <= 0 \/ idx.isNil
    THEN [NoCall EXCEPT !.ex = extractArgs(idx, offset, length), !.at = "done"]
    ELSE extractBeginHeader(extractArgs(idx, offset, length), idx.pts,
                            findPoint(idx.pts, offset), gzipNewReader(data))

\* one round of the read loop of the call cl that located pt, rd the result
\* of its fr.Read(readWin): the call returns or goes round again
extractRound(cl, pt, rd) ==
  IF Len(rd.bytes) = 0 \/ cl.totalRead + Len(rd.bytes) = Len(cl.b) \/ rd.err = EOF
    THEN [ex |-> extractReturn(cl.ex, pt,
                   [fr |-> rd.f, b |-> Overwrite(cl.b, cl.totalRead, rd.bytes),
                    err |-> rd.err]),
          b |-> Overwrite(cl.b, cl.totalRead, rd.bytes),
          totalRead |-> cl.totalRead + Len(rd.bytes), at |-> "done"]
    ELSE [ex |-> [cl.ex EXCEPT !.fr = rd.f],
          b |-> Overwrite(cl.b, cl.totalRead, rd.bytes),
          totalRead |-> cl.totalRead + Len(rd.bytes), at |-> "reading"]

(***************************************************************************)
(* The files the operations are run on: whole gzip files, byte for byte,   *)
(* with the content U that their first member compresses.  wellFormed     *)
(* tells the files that are one valid RFC 1952 member and nothing else;    *)
(* tail is the number of bytes that follow the trailer of the first        *)
(* member.                                                                 *)
(***************************************************************************)
Files ==
  <<
    \* 1: stored, 10 bytes, no optional header field
    [data |-> <<31, 139, 8, 0, 0, 0, 0, 0, 0, 3, 1, 10, 0, 245, 255, 97, 98, 99, 100, 101, 102, 103, 104, 105, 106, 58, 112, 129, 57, 10, 0, 0, 0>>,
     U |-> <<97, 98, 99, 100, 101, 102, 103, 104, 105, 106>>, wellFormed |-> TRUE, tail |-> 0],
    \* 2: FNAME "n"
    [data |-> <<31, 139, 8, 8, 0, 0, 0, 0, 0, 3, 110, 0, 1, 10, 0, 245, 255, 97, 98, 99, 100, 101, 102, 103, 104, 105, 106, 58, 112, 129, 57, 10, 0, 0, 0>>,
     U |-> <<97, 98, 99, 100, 101, 102, 103, 104, 105, 106>>, wellFormed |-> TRUE, tail |-> 0],
    \* 3: FNAME "n\xe9" (ISO 8859-1)
    [data |-> <<31, 139, 8, 8, 0, 0, 0, 0, 0, 3, 110, 233, 0, 1, 10, 0, 245, 255, 97, 98, 99, 100, 101, 102, 103, 104, 105, 106, 58, 112, 129, 57, 10, 0, 0, 0>>,
     U |-> <<97, 98, 99, 100, 101, 102, 103, 104, 105, 106>>, wellFormed |-> TRUE, tail |-> 0],
    \* 4: FEXTRA "xy"
    [data |-> <<31, 139, 8, 4, 0, 0, 0, 0, 0, 3, 2, 0, 120, 121, 1, 10, 0, 245, 255, 97, 98, 99, 100, 101, 102, 103, 104, 105, 106, 58, 112, 129, 57, 10, 0, 0, 0>>,
     U |-> <<97, 98, 99, 100, 101, 102, 103, 104, 105, 106>>, wellFormed |-> TRUE, tail |-> 0],
    \* 5: FCOMMENT "c"
    [data |-> <<31, 139, 8, 16, 0, 0, 0, 0, 0, 3, 99, 0, 1, 10, 0, 245, 255, 97, 98, 99, 100, 101, 102, 103, 104, 105, 106, 58, 112, 129, 57, 10, 0, 0, 0>>,
     U |-> <<97, 98, 99, 100, 101, 102, 103, 104, 105, 106>>, wellFormed |-> TRUE, tail |-> 0],
    \* 6: FHCRC
    [data |-> <<31, 139, 8, 2, 0, 0, 0, 0, 0, 3, 167, 119, 1, 10, 0, 245, 255, 97, 98, 99, 100, 101, 102, 103, 104, 105, 106, 58, 112, 129, 57, 10, 0, 0, 0>>,
     U |-> <<97, 98, 99, 100, 101, 102, 103, 104, 105, 106>>, wellFormed |-> TRUE, tail |-> 0],
    \* 7: FEXTRA, FNAME, FCOMMENT and FHCRC
    [data |-> <<31, 139, 8, 30, 0, 0, 0, 0, 0, 3, 1, 0, 120, 110, 0, 99, 0, 58, 39, 1, 10, 0, 245, 255, 97, 98, 99, 100, 101, 102, 103, 104, 105, 106, 58, 112, 129, 57, 10, 0, 0, 0>>,
     U |-> <<97, 98, 99, 100, 101, 102, 103, 104, 105, 106>>, wellFormed |-> TRUE, tail |-> 0],
    \* 8: all four fields, FHCRC over the first 10 bytes only
    [data |-> <<31, 139, 8, 30, 0, 0, 0, 0, 0, 3, 1, 0, 120, 110, 0, 99, 0, 29, 129, 1, 10, 0, 245, 255, 97, 98, 99, 100, 101, 102, 103, 104, 105, 106, 58, 112, 129, 57, 10, 0, 0, 0>>,
     U |-> <<97, 98, 99, 100, 101, 102, 103, 104, 105, 106>>, wellFormed |-> FALSE, tail |-> 0],
    \* 9: fixed, 17 bytes, copies across the points
    [data |-> <<31, 139, 8, 0, 0, 0, 0, 0, 0, 3, 75, 68, 128, 36, 48, 6, 0, 29, 111, 120, 179, 17, 0, 0, 0>>,
     U |-> <<97, 97, 97, 97, 97, 97, 97, 97, 97, 97, 97, 98, 97, 97, 97, 98, 97>>, wellFormed |-> TRUE, tail |-> 0],
    \* 10: fixed, 9 literals
    [data |-> <<31, 139, 8, 0, 0, 0, 0, 0, 0, 3, 75, 76, 74, 78, 73, 77, 75, 207, 200, 4, 0, 175, 136, 169, 141, 9, 0, 0, 0>>,
     U |-> <<97, 98, 99, 100, 101, 102, 103, 104, 105>>, wellFormed |-> TRUE, tail |-> 0],
    \* 11: fixed, 9 literals, then stored, 9 bytes
    [data |-> <<31, 139, 8, 0, 0, 0, 0, 0, 0, 3, 74, 76, 74, 78, 73, 77, 75, 207, 200, 4, 4, 9, 0, 246, 255, 106, 107, 108, 109, 110, 111, 112, 113, 114, 11, 197, 254, 8, 18, 0, 0, 0>>,
     U |-> <<97, 98, 99, 100, 101, 102, 103, 104, 105, 106, 107, 108, 109, 110, 111, 112, 113, 114>>, wellFormed |-> TRUE, tail |-> 0],
    \* 12: two dynamic blocks, codes longer than 9 bits
    [data |-> <<31, 139, 8, 0, 0, 0, 0, 0, 0, 3, 4, 193, 1, 129, 36, 71, 16, 4, 49, 172, 138, 172, 158, 189, 55, 127, 0, 150, 244, 223, 252, 95, 17, 28, 16, 0, 0, 128, 48, 12, 202, 202, 250, 135, 184, 66, 126, 3, 168, 48, 16, 84, 12, 0, 0, 0>>,
     U |-> <<97, 98, 106, 99, 97, 98, 97, 98, 97, 98, 97, 98>>, wellFormed |-> TRUE, tail |-> 0],
    \* 13: fixed, stored, dynamic; FNAME "n"
    [data |-> <<31, 139, 8, 8, 0, 0, 0, 0, 0, 3, 110, 0, 74, 76, 2, 194, 100, 0, 0, 3, 0, 252, 255, 120, 121, 122, 13, 193, 1, 1, 0, 0, 0, 130, 160, 173, 248, 127, 68, 129, 206, 0, 67, 53, 7, 218, 15, 0, 0, 0>>,
     U |-> <<97, 98, 97, 98, 97, 99, 120, 121, 122, 97, 98, 98, 98, 98, 97>>, wellFormed |-> TRUE, tail |-> 0],
    \* 14: stored, 8 bytes
    [data |-> <<31, 139, 8, 0, 0, 0, 0, 0, 0, 3, 1, 8, 0, 247, 255, 97, 98, 99, 100, 101, 102, 103, 104, 80, 42, 239, 174, 8, 0, 0, 0>>,
     U |-> <<97, 98, 99, 100, 101, 102, 103, 104>>, wellFormed |-> TRUE, tail |-> 0],
    \* 15: fixed, 16 bytes
    [data |-> <<31, 139, 8, 0, 0, 0, 0, 0, 0, 3, 75, 68, 3, 0, 213, 104, 214, 207, 16, 0, 0, 0>>,
     U |-> <<97, 97, 97, 97, 97, 97, 97, 97, 97, 97, 97, 97, 97, 97, 97, 97>>, wellFormed |-> TRUE, tail |-> 0],
    \* 16: empty content
    [data |-> <<31, 139, 8, 0, 0, 0, 0, 0, 0, 3, 3, 0, 0, 0, 0, 0, 0, 0, 0, 0>>,
     U |-> <<>>, wellFormed |-> TRUE, tail |-> 0],
    \* 17: dynamic then fixed, 17 bytes
    [data |-> <<31, 139, 8, 0, 0, 0, 0, 0, 0, 3, 4, 193, 129, 0, 0, 0, 0, 128, 32, 214, 246, 135, 184, 68, 202, 75, 78, 73, 5, 162, 180, 116, 0, 254, 25, 175, 159, 17, 0, 0, 0>>,
     U |-> <<97, 98, 97, 97, 98, 97, 98, 98, 97, 99, 100, 101, 99, 100, 101, 102, 103>>, wellFormed |-> TRUE, tail |-> 0],
    \* 18: empty stored block between fixed blocks
    [data |-> <<31, 139, 8, 0, 0, 0, 0, 0, 0, 3, 74, 76, 74, 6, 0, 0, 0, 255, 255, 75, 73, 77, 75, 207, 200, 204, 2, 0, 58, 112, 129, 57, 10, 0, 0, 0>>,
     U |-> <<97, 98, 99, 100, 101, 102, 103, 104, 105, 106>>, wellFormed |-> TRUE, tail |-> 0],
    \* 19: payload cut inside the stored block
    [data |-> <<31, 139, 8, 0, 0, 0, 0, 0, 0, 3, 1, 10, 0, 245, 255, 97, 98>>,
     U |-> <<97, 98, 99, 100, 101, 102, 103, 104, 105, 106>>, wellFormed |-> FALSE, tail |-> 0],
    \* 20: trailer with a wrong CRC-32
    [data |-> <<31, 139, 8, 0, 0, 0, 0, 0, 0, 3, 1, 10, 0, 245, 255, 97, 98, 99, 100, 101, 102, 103, 104, 105, 106, 59, 112, 129, 57, 10, 0, 0, 0>>,
     U |-> <<97, 98, 99, 100, 101, 102, 103, 104, 105, 106>>, wellFormed |-> FALSE, tail |-> 0],
    \* 21: wrong magic
    [data |-> <<31, 140, 8, 0, 0, 0, 0, 0, 0, 3, 1, 10, 0, 245, 255, 97, 98, 99, 100, 101, 102, 103, 104, 105, 106, 58, 112, 129, 57, 10, 0, 0, 0>>,
     U |-> <<97, 98, 99, 100, 101, 102, 103, 104, 105, 106>>, wellFormed |-> FALSE, tail |-> 0],
    \* 22: no trailer
    [data |-> <<31, 139, 8, 0, 0, 0, 0, 0, 0, 3, 1, 10, 0, 245, 255, 97, 98, 99, 100, 101, 102, 103, 104, 105, 106>>,
     U |-> <<97, 98, 99, 100, 101, 102, 103, 104, 105, 106>>, wellFormed |-> FALSE, tail |-> 0],
    \* 23: block type 3
    [data |-> <<31, 139, 8, 0, 0, 0, 0, 0, 0, 3, 7, 0, 0, 0, 0, 0, 0, 0, 0, 0>>,
     U |-> <<>>, wellFormed |-> FALSE, tail |-> 0],
    \* 24: header cut inside FNAME
    [data |-> <<31, 139, 8, 8, 0, 0, 0, 0, 0, 3, 110>>,
     U |-> <<>>, wellFormed |-> FALSE, tail |-> 0],
    \* 25: trailer with a wrong ISIZE
    [data |-> <<31, 139, 8, 0, 0, 0, 0, 0, 0, 3, 1, 10, 0, 245, 255, 97, 98, 99, 100, 101, 102, 103, 104, 105, 106, 58, 112, 129, 57, 11, 0, 0, 0>>,
     U |-> <<97, 98, 99, 100, 101, 102, 103, 104, 105, 106>>, wellFormed |-> FALSE, tail |-> 0],
    \* 26: a second gzip member after the first
    [data |-> <<31, 139, 8, 0, 0, 0, 0, 0, 0, 3, 1, 10, 0, 245, 255, 97, 98, 99, 100, 101, 102, 103, 104, 105, 106, 58, 112, 129, 57, 10, 0, 0, 0, 31, 139, 8, 0, 0, 0, 0, 0, 0, 3, 1, 8, 0, 247, 255, 97, 98, 99, 100, 101, 102, 103, 104, 80, 42, 239, 174, 8, 0, 0, 0>>,
     U |-> <<97, 98, 99, 100, 101, 102, 103, 104, 105, 106>>, wellFormed |-> FALSE, tail |-> 31],
    \* 27: three bytes that are no gzip header after the trailer
    [data |-> <<31, 139, 8, 0, 0, 0, 0, 0, 0, 3, 75, 76, 74, 78, 73, 77, 75, 207, 200, 4, 0, 175, 136, 169, 141, 9, 0, 0, 0, 120, 121, 122>>,
     U |-> <<97, 98, 99, 100, 101, 102, 103, 104, 105>>, wellFormed |-> FALSE, tail |-> 3]
  >>


(***************************************************************************)
(* The state machine: BuildIndex on one file, step by step, then Extract   *)
(* calls on the index it returned.                                         *)
\* no back-reference is being copied
NoCopy == [len |-> 0, dist |-> 0, base |-> << >>, at |-> "none"]

(***************************************************************************)
\* offsets and lengths the Extract calls are made with
MaxOffset == 18
MaxLength == 18

\* the Extract calls that run side by side, the offsets they are made with (at
\* the points and halfway between them) and their length
Calls == {1, 2}
MaxCallHalfSpans == 3
CallLength == 2
CallOffsets == {i * (span \div 2) : i \in 0..MaxCallHalfSpans}

VARIABLES
  file,       \* the file on disk: an element of Files
  pc,         \* "BuildIndex" before the call, "readSpan" inside its loop, "returned"
              \* after it, "extracted" after the call of Extract
  rr,         \* BuildIndex's gzip.Reader
  f,          \* its flate.Decompressor, rr.Decompressor
  idx,        \* the points of *idx
  buf,        \* readSpan's buf
  totalRead,  \* BuildIndex's totalRead
  built,      \* what BuildIndex returned: [isNil, pts, err]
  ex,         \* the last Extract call and what it returned
  live,       \* history: the Decompressor as it was at each addPoint call
  out,        \* history: all the bytes gzReadBlock has returned
  calls,      \* the Extract calls that run side by side: NoCall or a call on its way
  cp          \* the back-reference being copied: [len, dist, base, at]

vars == <<file, pc, rr, f, idx, buf, totalRead, built, ex, live, out, calls, cp>>

Init ==
  /\ file \in {Files[i] : i \in 1..Len(Files)}
  /\ pc = "BuildIndex"
  /\ rr = ZeroReader
  /\ f = NewReader(0)
  /\ idx = << >>
  /\ buf = << >>
  /\ totalRead = 0
  /\ built = [isNil |-> TRUE, pts |-> << >>, err |-> ErrNil]
  /\ ex = NoExtract
  /\ live = << >>
  /\ out = << >>
  /\ calls = [c \in Calls |-> NoCall]
  /\ cp = NoCopy

\* BuildIndex up to its loop, nr the result of gzip.NewReader
BuildIndexHeader(nr) ==
  /\ IF nr.err # ErrNil
       THEN /\ pc' = "returned"
            /\ built' = [isNil |-> TRUE, pts |-> << >>, err |-> nr.err]
            /\ UNCHANGED <<rr, f, idx, live>>
       ELSE /\ pc' = "readSpan"
            /\ rr' = [nr.z EXCEPT !.multistream = FALSE]
            /\ f' = nr.f
            /\ idx' = addPoint(<< >>, nr.f, 0)
            /\ live' = <<nr.f>>
            /\ UNCHANGED built
  /\ UNCHANGED <<file, buf, totalRead, ex, out, calls, cp>>

\* BuildIndex up to its loop: gzip.NewReader, Multistream(false), addPoint(rr, 0)
BuildIndexOpen ==
  /\ pc = "BuildIndex"
  /\ BuildIndexHeader(gzipNewReader(file.data))

\* readBlock's loop when there is nothing to hand out and no error: f.Step(f),
\* which writes the arrays of the Decompressor
readBlockStep ==
  /\ pc = "readSpan"
  /\ rr.Err = ErrNil
  /\ SliceLen(f.ToRead) = 0
  /\ f.Err = ErrNil
  /\ f' = Step(file.data, f)
  /\ idx' = writeThrough(idx, NewReaderCells, f')
  /\ UNCHANGED <<file, pc, rr, buf, totalRead, built, ex, live, out, calls, cp>>

\* a readSpan that returns with half a span
readSpanHalf(b) == Len(b) < span \div 2

\* a readSpan that returns with whatever one gzReadBlock call gave it
readSpanOnce(b) == Len(b) < 1

\* readSpan's loop test: for len(buf) < span
readSpanMore(b) == Len(b) < span

\* readBlock returns the bytes of ToRead; gzReadBlock accounts for them and
\* readSpan appends them; with span bytes or more readSpan returns and
\* BuildIndex adds a point
readBlockData ==
  /\ pc = "readSpan"
  /\ rr.Err = ErrNil
  /\ SliceLen(f.ToRead) > 0
  /\ LET b == Slice(f.Hist, f.ToRead.lo, f.ToRead.hi)
         f1 == [f EXCEPT !.ToRead.lo = f.ToRead.hi]
         buf1 == buf \o b
     IN /\ f' = f1
        /\ rr' = [rr EXCEPT !.Digest = crc32Update(@, b), !.Size = @ + Len(b),
                            !.Err = ErrNil]
        /\ out' = out \o b
        /\ IF readSpanMore(buf1)
             THEN /\ buf' = buf1
                  /\ UNCHANGED <<idx, totalRead, live>>
             ELSE /\ buf' = << >>
                  /\ totalRead' = totalRead + Len(buf1)
                  /\ idx' = addPoint(idx, f1, totalRead + Len(buf1))
                  /\ live' = Append(live, f1)
  /\ UNCHANGED <<file, pc, built, ex, calls, cp>>

\* gzReadBlock as gzip.Reader.Read goes on when multistream is set: after the
\* trailer it reads the header of the next stream
gzReadBlockMultistream(data, z, pos, err) ==
  IF err # EOF THEN [z |-> [z EXCEPT !.Err = err], pos |-> pos, err |-> err]
  ELSE LET rd == ReadFull(data, pos, 8) IN
       IF rd.err # ErrNil
         THEN [z |-> [z EXCEPT !.Err = rd.err], pos |-> pos + Len(rd.bytes), err |-> rd.err]
       ELSE IF z.Digest # Get4(Slice(rd.bytes, 0, 4)) \/ U32(z.Size) # Get4(Slice(rd.bytes, 4, 8))
         THEN [z |-> [z EXCEPT !.Err = ErrChecksum], pos |-> pos + 8, err |-> ErrChecksum]
       ELSE LET h == readHeader(data, z, pos + 8, TRUE) IN
            [z |-> [h.z EXCEPT !.Err = h.err], pos |-> h.pos,
             err |-> IF h.err # ErrNil THEN h.err ELSE EOF]

\* gzReadBlock when readBlock returned no bytes and the error err: [z, pos, err]
gzReadBlockEnd(data, z, pos, err) ==
  IF err # EOF THEN [z |-> [z EXCEPT !.Err = err], pos |-> pos, err |-> err]
  ELSE LET rd == ReadFull(data, pos, 8) IN
       IF rd.err # ErrNil
         THEN [z |-> [z EXCEPT !.Err = rd.err], pos |-> pos + Len(rd.bytes), err |-> rd.err]
       ELSE IF z.Digest # Get4(Slice(rd.bytes, 0, 4)) \/ U32(z.Size) # Get4(Slice(rd.bytes, 4, 8))
         THEN [z |-> [z EXCEPT !.Err = ErrChecksum], pos |-> pos + 8, err |-> ErrChecksum]
       ELSE [z |-> z, pos |-> pos + 8, err |-> EOF]

\* readBlock returns the decoder's error: gzReadBlock checks the trailer at
\* EOF, readSpan hands the error on and BuildIndex returns
readBlockEnd ==
  /\ pc = "readSpan"
  /\ rr.Err = ErrNil
  /\ SliceLen(f.ToRead) = 0
  /\ f.Err # ErrNil
  /\ LET g == gzReadBlockEnd(file.data, rr, f.R, f.Err)
     IN /\ rr' = g.z
        /\ f' = [f EXCEPT !.R = g.pos]
        /\ built' = IF g.err = EOF
                      THEN [isNil |-> FALSE, pts |-> idx, err |-> ErrNil]
                      ELSE [isNil |-> TRUE, pts |-> << >>, err |-> g.err]
  /\ pc' = "returned"
  /\ UNCHANGED <<file, idx, buf, totalRead, ex, live, out, calls, cp>>

\* the index BuildIndex returned, as its caller holds it
builtIndex == [isNil |-> built.isNil, pts |-> built.pts]

\* the indexes a caller has without BuildIndex: the nil Index and Index{}
NilIndex == [isNil |-> TRUE, pts |-> << >>]
EmptyIndex == [isNil |-> FALSE, pts |-> << >>]

\* the arguments the calls without an index from BuildIndex are made with
EdgeOffsets == {-1, 0, MaxOffset}
EdgeLengths == {-1, 0, 1, MaxLength}

\* a call of Extract on the file, with the index BuildIndex returned, with the
\* nil index or with an index of no points.  Extract keeps nothing from one
\* call to the next (it opens the file itself and only reads the index), so
\* one call after BuildIndex shows all that one call can do.
ExtractCall ==
  /\ pc = "returned"
  /\ pc' = "extracted"
  /\ \/ \E offset \in (-1)..MaxOffset, length \in (-1)..MaxLength :
          ex' = Extract(file.data, builtIndex, offset, length)
     \/ \E index \in {NilIndex, EmptyIndex}, offset \in EdgeOffsets, length \in EdgeLengths :
          ex' = Extract(file.data, index, offset, length)
  /\ UNCHANGED <<file, rr, f, idx, buf, totalRead, built, live, out, calls, cp>>

Next ==
  \/ BuildIndexOpen
  \/ readBlockStep
  \/ readBlockData
  \/ readBlockEnd
  \/ ExtractCall

Spec == Init /\ [][Next]_vars

\* BuildIndex alone
NextBuild ==
  \/ BuildIndexOpen
  \/ readBlockStep
  \/ readBlockData
  \/ readBlockEnd

SpecBuild == Init /\ [][NextBuild]_vars

\* the files of Files that are cut short
CutFrom == {1, 9, 13}

\* file i of Files with only its first n bytes
cutFile(i, n) ==
  [data |-> SubSeq(Files[i].data, 1, n), U |-> Files[i].U, wellFormed |-> FALSE, tail |-> 0]

\* every proper prefix of the files CutFrom
CutFiles == UNION {{cutFile(i, n) : n \in 0..(Len(Files[i].data) - 1)} : i \in CutFrom}

\* BuildIndex on a file that ends too early
InitCut ==
  /\ file \in CutFiles
  /\ pc = "BuildIndex"
  /\ rr = ZeroReader
  /\ f = NewReader(0)
  /\ idx = << >>
  /\ buf = << >>
  /\ totalRead = 0
  /\ built = [isNil |-> TRUE, pts |-> << >>, err |-> ErrNil]
  /\ ex = NoExtract
  /\ live = << >>
  /\ out = << >>
  /\ calls = [c \in Calls |-> NoCall]
  /\ cp = NoCopy

SpecCut == InitCut /\ [][NextBuild]_vars

(***************************************************************************)
(* Files whose dynamic blocks declare a distance code that leaves code     *)
(* words unassigned (init accepts any set of code lengths) and then take   *)
(* a distance from an unassigned code word.                                *)
(***************************************************************************)
SparseFiles ==
  <<
    \* 1: one distance code of 1 bit, the distance read from the other bit
    [data |-> <<31, 139, 8, 0, 0, 0, 0, 0, 0, 3, 21, 192, 1, 1, 0, 0, 0, 130, 160, 173, 252, 63, 97, 225, 1, 185, 147, 172, 238, 5, 0, 0, 0>>,
     U |-> <<97, 97, 97, 97, 97>>, wellFormed |-> FALSE, tail |-> 0],
    \* 2: one distance code of 2 bits, the distance read from bits of the trailer
    [data |-> <<31, 139, 8, 0, 0, 0, 0, 0, 0, 3, 21, 192, 1, 13, 0, 0, 0, 130, 176, 186, 216, 191, 192, 39, 117, 169, 93, 60, 170, 6, 0, 0, 0>>,
     U |-> <<104, 104, 104, 104, 104, 104>>, wellFormed |-> FALSE, tail |-> 0],
    \* 3: the same with one byte between the block and the trailer
    [data |-> <<31, 139, 8, 0, 0, 0, 0, 0, 0, 3, 21, 192, 1, 13, 0, 0, 0, 130, 176, 186, 216, 191, 192, 39, 117, 1, 169, 93, 60, 170, 6, 0, 0, 0>>,
     U |-> <<104, 104, 104, 104, 104, 104>>, wellFormed |-> FALSE, tail |-> 0],
    \* 4: one distance code of 5 bits, then a stored block
    [data |-> <<31, 139, 8, 0, 0, 0, 0, 0, 0, 3, 20, 192, 1, 13, 0, 48, 0, 194, 48, 173, 195, 191, 136, 134, 215, 46, 170, 2, 0, 253, 255, 120, 121, 124, 236, 244, 31, 9, 0, 0, 0>>,
     U |-> <<97, 97, 98, 98, 98, 98, 98, 120, 121>>, wellFormed |-> FALSE, tail |-> 0]
  >>

\* BuildIndex on the files of Files and on the files of SparseFiles
InitSparse ==
  /\ file \in {Files[i] : i \in 1..Len(Files)} \cup {SparseFiles[i] : i \in 1..Len(SparseFiles)}
  /\ pc = "BuildIndex"
  /\ rr = ZeroReader
  /\ f = NewReader(0)
  /\ idx = << >>
  /\ buf = << >>
  /\ totalRead = 0
  /\ built = [isNil |-> TRUE, pts |-> << >>, err |-> ErrNil]
  /\ ex = NoExtract
  /\ live = << >>
  /\ out = << >>
  /\ calls = [c \in Calls |-> NoCall]
  /\ cp = NoCopy

SpecSparse == InitSparse /\ [][NextBuild]_vars

(***************************************************************************)
(* Files whose dynamic block declares a literal/length code that leaves    *)
(* code words unassigned and then presents one of them where a symbol of   *)
(* that code is read.  The output of BuildIndex on them has no end, so     *)
(* the decoder's steps stop at MaxOut bytes of output.                     *)
(***************************************************************************)
EndlessFiles ==
  <<
    \* 1: literal/length code of two 2-bit code words, the data begins with the bit 1
    [data |-> <<31, 139, 8, 0, 0, 0, 0, 0, 0, 3, 5, 192, 129, 0, 0, 0, 0, 128, 32, 214, 253, 37, 238, 255, 0, 0, 0, 0, 0, 0, 0, 0>>,
     U |-> << >>, wellFormed |-> FALSE, tail |-> 0]
  >>

MaxOut == 24

\* BuildIndex on the files of Files, SparseFiles and EndlessFiles
InitEndless ==
  /\ file \in {Files[i] : i \in 1..Len(Files)}
               \cup {SparseFiles[i] : i \in 1..Len(SparseFiles)}
               \cup {EndlessFiles[i] : i \in 1..Len(EndlessFiles)}
  /\ pc = "BuildIndex"
  /\ rr = ZeroReader
  /\ f = NewReader(0)
  /\ idx = << >>
  /\ buf = << >>
  /\ totalRead = 0
  /\ built = [isNil |-> TRUE, pts |-> << >>, err |-> ErrNil]
  /\ ex = NoExtract
  /\ live = << >>
  /\ out = << >>
  /\ calls = [c \in Calls |-> NoCall]
  /\ cp = NoCopy

\* readBlockStep while fewer than MaxOut bytes have been put out
readBlockStepBounded ==
  /\ Len(out) < MaxOut
  /\ readBlockStep

NextEndless ==
  \/ BuildIndexOpen
  \/ readBlockStepBounded
  \/ readBlockData
  \/ readBlockEnd

SpecEndless == InitEndless /\ [][NextEndless]_vars

\* call c of Extract starts on the index BuildIndex returned and runs up to
\* its read loop
CallStart(c) ==
  /\ pc = "returned"
  /\ calls[c].at = "idle"
  /\ \E offset \in CallOffsets :
       calls' = [calls EXCEPT ![c] = extractBegin(file.data, builtIndex, offset, CallLength)]
  /\ UNCHANGED <<file, pc, rr, f, idx, buf, totalRead, built, ex, live, out, cp>>

\* one round of the read loop of call c, rd the result of its fr.Read: the
\* decoder of the call has written its arrays
CallRound(c, cells, rd) ==
  /\ calls' = [d \in Calls |->
                IF d = c THEN extractRound(calls[c], built.pts[calls[c].ex.pt], rd)
                ELSE IF calls[d].at = "reading"
                  THEN [calls[d] EXCEPT !.ex.fr =
                          writeThroughDecoder(@, inflateResumeCells(d, calls[d].ex.pt),
                                              cells, rd.f)]
                ELSE calls[d]]
  /\ idx' = writeThrough(idx, cells, rd.f)
  /\ built' = [built EXCEPT !.pts = writeThrough(@, cells, rd.f)]
  /\ UNCHANGED <<file, pc, rr, f, buf, totalRead, ex, live, out, cp>>

\* call c of Extract goes once round its read loop
CallRead(c) ==
  /\ pc = "returned"
  /\ calls[c].at = "reading"
  /\ CallRound(c, inflateResumeCells(c, calls[c].ex.pt),
               Read(file.data, calls[c].ex.fr, Len(calls[c].b) - calls[c].totalRead))

\* BuildIndex, then Extract calls side by side on the index it returned
NextCalls ==
  \/ BuildIndexOpen
  \/ readBlockStep
  \/ readBlockData
  \/ readBlockEnd
  \/ \E c \in Calls : CallStart(c)
  \/ \E c \in Calls : CallRead(c)

SpecCalls == Init /\ [][NextCalls]_vars

(***************************************************************************)
(* The copy of one back-reference, on its own: the decoder has written     *)
(* some bytes as literals (byte number j has the value j), the consumer    *)
(* has read what was flushed, and huffmanBlock has decoded a length and a  *)
(* distance.  Read drains ToRead and calls copyHuff when the copy was      *)
(* suspended.  The input ends after the back-reference.                    *)
(***************************************************************************)
MaxBase == 9
MaxCopyLen == 10
MinCopyLen == lengthBase(257).length

\* the consumer reads all of ToRead: st is [f, out]
drained(g, got) ==
  [f |-> [g EXCEPT !.ToRead.lo = g.ToRead.hi],
   out |-> got \o Slice(g.Hist, g.ToRead.lo, g.ToRead.hi)]

\* the flush of an empty stored block, and the consumer's read
syncFlush(st) == drained(flush(st.f, "NextBlock"), st.out)

\* huffmanBlock's case v < 256 for the literal v, g the decoder with the byte
\* stored, and the consumer's read if the history was full
literalStored(g, got) ==
  IF g.Hp = MaxHist THEN drained(flush(g, "huffmanBlock"), got)
  ELSE [f |-> g, out |-> got]

literalByte(st, v) ==
  literalStored([st.f EXCEPT !.Hist = Put(@, st.f.Hp, v), !.Hp = @ + 1], st.out)

RECURSIVE literalBytes(_, _, _, _)
\* the literals i..n written, with the flush of an empty stored block after
\* literal s
literalBytes(st, i, n, s) ==
  IF i > n \/ st.f.Hp < 0 THEN st
  ELSE literalBytes(IF i = s THEN syncFlush(literalByte(st, i)) ELSE literalByte(st, i),
                    i + 1, n, s)

\* no file: the copy reads no input
NoFile == [data |-> << >>, U |-> << >>, wellFormed |-> FALSE, tail |-> 0]

\* the decoder st.f after n literals, before the back-reference
copyReady(st, n) ==
  /\ f = [st.f EXCEPT !.Step = "huffmanBlock", !.Hl = FixedPtr]
  /\ out = st.out
  /\ cp = [NoCopy EXCEPT !.base = Seq1([j \in 1..n |-> j]), !.at = "idle"]

InitCopy ==
  /\ \E n \in 1..MaxBase, s \in 0..MaxBase :
       /\ s <= n
       /\ copyReady(literalBytes([f |-> NewReader(0), out |-> << >>], 1, n, s), n)
  /\ file = NoFile
  /\ pc = "copy"
  /\ rr = ZeroReader
  /\ idx = << >>
  /\ buf = << >>
  /\ totalRead = 0
  /\ built = [isNil |-> TRUE, pts |-> << >>, err |-> ErrNil]
  /\ ex = NoExtract
  /\ live = << >>
  /\ calls = [c \in Calls |-> NoCall]

\* where the copy of the back-reference is once huffmanBlock or copyHuff has
\* returned with the decoder g: turned down by the checks before the copy,
\* suspended by a full history, or done, huffmanBlock having gone on to the
\* next symbol and met the end of the input
copyAt(g) ==
  IF g.Err.kind \in {"CorruptInputError", "InternalError"} THEN "rejected"
  ELSE IF g.Err = ErrNil THEN "suspended"
  ELSE "done"

\* huffmanBlock or copyHuff has returned with the decoder g for the back-reference c
copied(c, g) ==
  /\ f' = g
  /\ cp' = [c EXCEPT !.at = copyAt(g)]
  /\ UNCHANGED <<file, pc, rr, idx, buf, totalRead, built, ex, live, out, calls>>

\* huffmanBlock from the distance on: the checks, f.CopyLen, f.CopyDist =
\* length, dist and copyHist
CopyStart ==
  /\ pc = "copy"
  /\ cp.at = "idle"
  /\ \E length \in MinCopyLen..MaxCopyLen, dist \in 1..(MaxHist + 1) :
       copied([cp EXCEPT !.len = length, !.dist = dist],
              huffmanBlockDist(file.data, [f |-> f, err |-> ErrNil, dist |-> dist], length))

\* Read with a buffer of n bytes while ToRead holds bytes
CopyReadBytes(rd) ==
  /\ f' = rd.f
  /\ out' = out \o rd.bytes
  /\ UNCHANGED <<file, pc, rr, idx, buf, totalRead, built, ex, live, calls, cp>>

CopyRead ==
  /\ pc = "copy"
  /\ SliceLen(f.ToRead) > 0
  /\ \E n \in 1..MaxHist : CopyReadBytes(Read(file.data, f, n))

\* Read with ToRead empty calls f.Step: copyHuff goes on with the copy
CopyResume ==
  /\ pc = "copy"
  /\ cp.at = "suspended"
  /\ SliceLen(f.ToRead) = 0
  /\ f.Err = ErrNil
  /\ f.Step = "copyHuff"
  /\ copied(cp, Step(file.data, f))

NextCopy ==
  \/ CopyStart
  \/ CopyRead
  \/ CopyResume

SpecCopy == InitCopy /\ [][NextCopy]_vars

(***************************************************************************)
(* One stored block, on its own: the decoder has written some bytes as     *)
(* literals and is at NextBlock.  The input is the byte with the three     *)
(* header bits, LEN, NLEN, the bytes of the block and two bytes more; it   *)
(* may have a wrong NLEN, end one byte early, or have the block type 3.    *)
(* Read drains ToRead and calls copyData when the copy was suspended.      *)
(***************************************************************************)
MaxStored == 9

\* the bytes of a stored block of n bytes: byte number j has the value 100 + j
storedBytes(n) == Seq1([j \in 1..n |-> 100 + j])

\* the header bits h (BFINAL, BTYPE) in a byte, LEN, NLEN, the bytes and two
\* bytes of what follows
storedInput(h, n, nn) == <<h, n, 0, nn, 255>> \o storedBytes(n) \o <<7, 7>>

\* the inputs: well formed, with NLEN one off, cut one byte before the end
\* of the block, and with the block type 3
StoredInputs ==
  UNION {{storedInput(0, n, 255 - n), storedInput(0, n, 254 - n),
          SubSeq(storedInput(0, n, 255 - n), 1, 5 + n - 1),
          storedInput(6, n, 255 - n)} : n \in 0..MaxStored}

\* BTYPE and LEN of the input, and whether it is a stored block with NLEN
\* the complement of LEN and all its bytes
storedType(data) == LowBits(Shr(At(data, 0), 1), 2)
storedLen(data) == At(data, 1) + At(data, 2) * 256
storedNlen(data) == At(data, 3) + At(data, 4) * 256
storedWhole(data) ==
  /\ storedType(data) = 0
  /\ Len(data) >= 5
  /\ storedNlen(data) = 65535 - storedLen(data)
  /\ Len(data) >= 5 + storedLen(data)

\* the decoder st.f after n literals and the end of their block, before the
\* stored block
storedReady(st, n) ==
  /\ f = [st.f EXCEPT !.Step = "NextBlock"]
  /\ out = st.out
  /\ cp = [NoCopy EXCEPT !.base = Seq1([j \in 1..n |-> j]), !.at = "idle"]

InitStored ==
  /\ \E n \in 0..MaxBase, s \in 0..MaxBase :
       /\ s <= n
       /\ storedReady(literalBytes([f |-> NewReader(0), out |-> << >>], 1, n, s), n)
  /\ \E data \in StoredInputs :
       file = [data |-> data, U |-> << >>, wellFormed |-> FALSE, tail |-> 0]
  /\ pc = "stored"
  /\ rr = ZeroReader
  /\ idx = << >>
  /\ buf = << >>
  /\ totalRead = 0
  /\ built = [isNil |-> TRUE, pts |-> << >>, err |-> ErrNil]
  /\ ex = NoExtract
  /\ live = << >>
  /\ calls = [c \in Calls |-> NoCall]

\* where the stored block is once NextBlock or copyData has returned with
\* the decoder g
storedAt(g) ==
  IF g.Err # ErrNil THEN "rejected"
  ELSE IF g.Step = "copyData" THEN "suspended"
  ELSE "done"

\* NextBlock or copyData has returned with the decoder g
storedGoes(g) ==
  /\ f' = g
  /\ cp' = [cp EXCEPT !.len = storedLen(file.data), !.at = storedAt(g)]
  /\ UNCHANGED <<file, pc, rr, idx, buf, totalRead, built, ex, live, out, calls>>

\* Read calls f.Step: NextBlock reads the header bits and, for a stored
\* block, calls dataBlock
StoredStart ==
  /\ pc = "stored"
  /\ cp.at = "idle"
  /\ f.Step = "NextBlock"
  /\ storedGoes(Step(file.data, f))

\* Read with a buffer of n bytes while ToRead holds bytes
StoredRead ==
  /\ pc = "stored"
  /\ SliceLen(f.ToRead) > 0
  /\ \E n \in 1..MaxHist : CopyReadBytes(Read(file.data, f, n))

\* Read with ToRead empty calls f.Step: copyData goes on with the block
StoredResume ==
  /\ pc = "stored"
  /\ cp.at = "suspended"
  /\ SliceLen(f.ToRead) = 0
  /\ f.Err = ErrNil
  /\ f.Step = "copyData"
  /\ storedGoes(Step(file.data, f))

NextStored ==
  \/ StoredStart
  \/ StoredRead
  \/ StoredResume

SpecStored == InitStored /\ [][NextStored]_vars

(***************************************************************************)
(* One call of huffSym, on its own: init has built a table from a vector   *)
(* of code lengths (lengths[i + 1] is the length of symbol i), and the     *)
(* input holds 16 bits: a code word of the canonical code of RFC 1951,     *)
(* 3.2.2, first bit first, with zeros or ones after it, or some other      *)
(* bits.  The vectors are complete codes, with and without code words      *)
(* longer than huffmanChunkBits, and codes that leave code words           *)
(* unassigned.                                                             *)
(***************************************************************************)
SymLengths ==
  {<<1, 2, 3, 3>>, <<2, 2, 2, 2>>, <<3, 0, 1, 0, 3, 2>>,
   <<1, 2, 3, 4, 5, 6, 7, 8, 9, 10, 10>>,
   <<2, 2, 2, 3, 4, 5, 6, 7, 8, 9, 10, 11, 12, 12>>,
   <<1>>, <<2, 2>>, <<0, 3, 0, 3>>, <<1, 0, 11>>}

RECURSIVE canonFirst(_, _)
\* the first code word of length n, as a number
canonFirst(lengths, n) ==
  IF n <= 1 THEN 0
  ELSE (canonFirst(lengths, n - 1)
        + Cardinality({j \in DOMAIN lengths : lengths[j] = n - 1})) * 2

\* the code word of symbol i
canonCode(lengths, i) ==
  canonFirst(lengths, At(lengths, i))
    + Cardinality({j \in 0..(i - 1) : At(lengths, j) = At(lengths, i)})

\* the symbols that have a code word
coded(lengths) == {i \in 0..(Len(lengths) - 1) : At(lengths, i) # 0}

\* 16 bits of input that begin with the code word of symbol i, followed by
\* zeros (pad = 0) or ones (pad = 1)
symBits(lengths, i, pad) ==
  RevBits(canonCode(lengths, i), At(lengths, i))
    + pad * (Pow2(16) - Pow2(At(lengths, i)))

\* the inputs for the code: every code word, and some other bits
SymInputs(lengths) ==
  {symBits(lengths, i, pad) : i \in coded(lengths), pad \in {0, 1}}
    \cup {0, 1, 2, 3, 5, 1023, 1024, 65535}

\* the symbols whose code word the 16 bits begin with
symsAt(lengths, bits16) ==
  {i \in coded(lengths) :
     LowBits(bits16, At(lengths, i)) = RevBits(canonCode(lengths, i), At(lengths, i))}

\* the call of huffSym: the code, the 16 bits, where the call is, and what
\* it returned
symCall(lengths, bits16, at, v, err) ==
  [len |-> 0, dist |-> 0, base |-> << >>, at |-> at,
   lengths |-> lengths, bits16 |-> bits16, v |-> v, err |-> err]

InitSym ==
  /\ \E lengths \in SymLengths :
       /\ f = [NewReader(0) EXCEPT !.H1 = HuffmanInit(ZeroHuffman, lengths).h,
                                  !.Hl = OwnH1, !.Step = "huffmanBlock"]
       /\ \E bits16 \in SymInputs(lengths) :
            /\ file = [data |-> <<bits16 % 256, bits16 \div 256>>, U |-> << >>,
                       wellFormed |-> FALSE, tail |-> 0]
            /\ cp = symCall(lengths, bits16, "idle", 0, ErrNil)
  /\ pc = "sym"
  /\ rr = ZeroReader
  /\ idx = << >>
  /\ buf = << >>
  /\ totalRead = 0
  /\ built = [isNil |-> TRUE, pts |-> << >>, err |-> ErrNil]
  /\ ex = NoExtract
  /\ live = << >>
  /\ out = << >>
  /\ calls = [c \in Calls |-> NoCall]

\* huffSym has returned r
symReturned(r) ==
  /\ f' = r.f
  /\ cp' = [cp EXCEPT !.at = "returned", !.v = r.v, !.err = r.err]
  /\ UNCHANGED <<file, pc, rr, idx, buf, totalRead, built, ex, live, out, calls>>

\* v, err = f.huffSym(f.Hl)
SymRead ==
  /\ pc = "sym"
  /\ cp.at = "idle"
  /\ symReturned(huffSym(file.data, f, DerefF(f, f.Hl)))

NextSym ==
  \/ SymRead

SpecSym == InitSym /\ [][NextSym]_vars

(***************************************************************************)
(* One back-reference of a block under the fixed code, read in the steps   *)
(* of huffmanBlock: the length symbol, its extra bits, the 5 bits of the   *)
(* distance code, and its extra bits.  The input is the back-reference     *)
(* written as RFC 1951, 3.2.5 and 3.2.6 lay it down, followed by zeros.    *)
(* The length and the distance are the numbers huffmanBlock assigns to     *)
(* f.CopyLen and f.CopyDist; the arithmetic is that of the source, with no *)
(* scaling.                                                                *)
(***************************************************************************)
\* RFC 1951, 3.2.5: the extra bits and the first length of the symbols 257..285
rfcLengthExtra ==
  <<0, 0, 0, 0, 0, 0, 0, 0, 1, 1, 1, 1, 2, 2, 2, 2, 3, 3, 3, 3, 4, 4, 4, 4, 5, 5, 5, 5, 0>>

rfcLengthBase ==
  <<3, 4, 5, 6, 7, 8, 9, 10, 11, 13, 15, 17, 19, 23, 27, 31, 35, 43, 51, 59, 67, 83, 99,
    115, 131, 163, 195, 227, 258>>

\* RFC 1951, 3.2.5: the extra bits and the first distance of the codes 0..29
rfcDistExtra ==
  <<0, 0, 0, 0, 1, 1, 2, 2, 3, 3, 4, 4, 5, 5, 6, 6, 7, 7, 8, 8, 9, 9, 10, 10, 11, 11, 12,
    12, 13, 13>>

rfcDistBase ==
  <<1, 2, 3, 4, 5, 7, 9, 13, 17, 25, 33, 49, 65, 97, 129, 193, 257, 385, 513, 769, 1025,
    1537, 2049, 3073, 4097, 6145, 8193, 12289, 16385, 24577>>

\* the symbols of the fixed literal/length code above the end of block, and
\* the values of 5 bits
RefSymbols == 257..287
RefDistCodes == 0..31

\* the number of extra bits written after length symbol v and distance code c
\* (none where the RFC has no entry)
lengthExtraBits(v) == IF v <= 285 THEN rfcLengthExtra[v - 256] ELSE 0
distExtraBits(c) == IF c <= 29 THEN rfcDistExtra[c + 1] ELSE 0

\* the n bits of x, most significant first (Huffman codes) and least
\* significant first (everything else)
bitsMSB(x, n) == [i \in 1..n |-> (x \div Pow2(n - i)) % 2]
bitsLSB(x, n) == [i \in 1..n |-> (x \div Pow2(i - 1)) % 2]

\* RFC 1951, 3.2.6: the code word of symbol v >= 256 under the fixed code
fixedCodeBits(v) ==
  IF v < 280 THEN bitsMSB(v - 256, 7) ELSE bitsMSB(192 + (v - 280), 8)

\* byte k of the bits, the first bit in the lowest place, zeros after the last
packByte(bits, k) ==
  LET bit(i) == IF 8 * k + i + 1 <= Len(bits) THEN bits[8 * k + i + 1] ELSE 0
  IN bit(0) + 2 * bit(1) + 4 * bit(2) + 8 * bit(3)
       + 16 * bit(4) + 32 * bit(5) + 64 * bit(6) + 128 * bit(7)

\* the back-reference as 5 bytes of input
refInput(v, lx, c, dx) ==
  LET bits == fixedCodeBits(v) \o bitsLSB(lx, lengthExtraBits(v))
                \o bitsMSB(c, 5) \o bitsLSB(dx, distExtraBits(c))
  IN [k \in 1..5 |-> packByte(bits, k - 1)]

\* the number of bits of the back-reference
refBits(v, c) ==
  (IF v < 280 THEN 7 ELSE 8) + lengthExtraBits(v) + 5 + distExtraBits(c)

\* the extra bits tried for a field of n bits: none set, the lowest, all
extraValues(n) == IF n = 0 THEN {0} ELSE {0, 1, Pow2(n) - 1}

\* the back-reference written (sym, lx, dc, dx) and read so far (v, len, code, dist)
refRead(sym, lx, dc, dx) ==
  [len |-> 0, dist |-> 0, base |-> << >>, at |-> "idle",
   sym |-> sym, lx |-> lx, dc |-> dc, dx |-> dx, v |-> 0, code |-> 0]

InitRef ==
  /\ \E sym \in RefSymbols, dc \in RefDistCodes :
       \E lx \in extraValues(lengthExtraBits(sym)), dx \in extraValues(distExtraBits(dc)) :
         /\ file = [data |-> refInput(sym, lx, dc, dx), U |-> << >>,
                    wellFormed |-> FALSE, tail |-> 0]
         /\ cp = refRead(sym, lx, dc, dx)
  /\ f = [NewReader(0) EXCEPT !.Hl = FixedPtr, !.Step = "huffmanBlock"]
  /\ pc = "ref"
  /\ rr = ZeroReader
  /\ idx = << >>
  /\ buf = << >>
  /\ totalRead = 0
  /\ built = [isNil |-> TRUE, pts |-> << >>, err |-> ErrNil]
  /\ ex = NoExtract
  /\ live = << >>
  /\ out = << >>
  /\ calls = [c \in Calls |-> NoCall]

\* a step of huffmanBlock has read r: an error ends the block, otherwise
\* the back-reference is at the next place
refGoes(r, at, read) ==
  /\ f' = [r.f EXCEPT !.Err = r.err]
  /\ cp' = IF r.err # ErrNil THEN [cp EXCEPT !.at = "failed"]
           ELSE [read EXCEPT !.at = at]
  /\ UNCHANGED <<file, pc, rr, idx, buf, totalRead, built, ex, live, out, calls>>

\* v, err := f.huffSym(f.Hl)
RefSym ==
  /\ pc = "ref"
  /\ cp.at = "idle"
  /\ LET s == huffSym(file.data, f, DerefF(f, f.Hl))
     IN refGoes(s, "symbol", [cp EXCEPT !.v = s.v])

\* the switch on v and the extra bits of the length
RefLength ==
  /\ pc = "ref"
  /\ cp.at = "symbol"
  /\ cp.v > 256
  /\ LET l == readLength(file.data, f, cp.v)
     IN refGoes(l, "length", [cp EXCEPT !.len = l.length])

\* the distance code
RefDistCode ==
  /\ pc = "ref"
  /\ cp.at = "length"
  /\ LET c == readDistCode(file.data, f)
     IN refGoes(c, "code", [cp EXCEPT !.code = c.v])

\* the switch on dist and its extra bits; f.CopyLen, f.CopyDist = length, dist
RefDist ==
  /\ pc = "ref"
  /\ cp.at = "code"
  /\ LET d == readDist(file.data, f, cp.code)
     IN refGoes(d, "handed", [cp EXCEPT !.dist = d.dist])

NextRef ==
  \/ RefSym
  \/ RefLength
  \/ RefDistCode
  \/ RefDist

SpecRef == InitRef /\ [][NextRef]_vars

(***************************************************************************)
(* The header of a dynamic block on its own.  Each block is final, holds   *)
(* no data but the end-of-block symbol, and comes with the code lengths    *)
(* its header stands for by RFC 1951, 3.2.7 (runs of <<length, count>>,    *)
(* the HLIT + 257 literal/length lengths first), whether the header is     *)
(* sound, and the number of bits of the block.  The headers use plain      *)
(* lengths and the repeat symbols 16, 17 and 18 with their smallest and    *)
(* largest extra bits; the unsound ones have HLIT + 257 above MaxLit, a 16 *)
(* with no length before it, or a run past the last length.                *)
(***************************************************************************)
DynBlocks ==
  <<
    \* 1: no repeat
    [data |-> <<5, 192, 129, 0, 0, 0, 0, 0, 16, 255, 213, 4, 0, 0>>,
     nlit |-> 257, ndist |-> 1, sound |-> TRUE, bits |-> 91,
     runs |-> <<<<1, 1>>, <<0, 255>>, <<1, 2>>>>],
    \* 2: 16 repeats a length of 8 3 times
    [data |-> <<5, 192, 135, 97, 192, 48, 12, 4, 177, 20, 220, 83, 251, 79, 108, 124, 0, 0>>,
     nlit |-> 257, ndist |-> 1, sound |-> TRUE, bits |-> 128,
     runs |-> <<<<8, 4>>, <<1, 1>>, <<2, 1>>, <<3, 1>>, <<4, 1>>, <<5, 1>>, <<0, 247>>, <<6,
                1>>, <<1, 1>>>>],
    \* 3: 16 repeats a length of 8 4 times
    [data |-> <<5, 192, 135, 97, 3, 48, 12, 4, 177, 52, 220, 83, 222, 127, 224, 224, 31, 0, 0>>,
     nlit |-> 257, ndist |-> 1, sound |-> TRUE, bits |-> 133,
     runs |-> <<<<8, 5>>, <<1, 1>>, <<2, 1>>, <<3, 1>>, <<4, 1>>, <<5, 1>>, <<7, 1>>, <<0,
                245>>, <<8, 1>>, <<1, 1>>>>],
    \* 4: 16 repeats a length of 8 5 times
    [data |-> <<5, 192, 135, 97, 3, 48, 12, 4, 177, 84, 220, 83, 251, 15, 108, 124, 0, 0, 0>>,
     nlit |-> 257, ndist |-> 1, sound |-> TRUE, bits |-> 129,
     runs |-> <<<<8, 6>>, <<1, 1>>, <<2, 1>>, <<3, 1>>, <<4, 1>>, <<5, 1>>, <<0, 245>>, <<7,
                1>>, <<1, 1>>>>],
    \* 5: 16 repeats a length of 8 6 times
    [data |-> <<5, 192, 135, 97, 0, 48, 12, 195, 176, 110, 80, 206, 255, 255, 22, 255, 0, 0>>,
     nlit |-> 257, ndist |-> 1, sound |-> TRUE, bits |-> 128,
     runs |-> <<<<8, 7>>, <<1, 1>>, <<2, 1>>, <<3, 1>>, <<4, 1>>, <<5, 1>>, <<0, 244>>, <<8,
                1>>, <<1, 1>>>>],
    \* 6: 17 writes 3 zeros
    [data |-> <<5, 192, 33, 1, 0, 0, 0, 0, 16, 225, 255, 103, 2, 0, 0>>,
     nlit |-> 257, ndist |-> 1, sound |-> TRUE, bits |-> 98,
     runs |-> <<<<1, 1>>, <<0, 255>>, <<1, 2>>>>],
    \* 7: 17 writes 4 zeros
    [data |-> <<5, 192, 33, 1, 0, 0, 0, 0, 16, 229, 255, 102, 2, 0, 0>>,
     nlit |-> 257, ndist |-> 1, sound |-> TRUE, bits |-> 98,
     runs |-> <<<<1, 1>>, <<0, 255>>, <<1, 2>>>>],
    \* 8: 17 writes 5 zeros
    [data |-> <<5, 192, 33, 1, 0, 0, 0, 0, 16, 233, 255, 101, 2, 0, 0>>,
     nlit |-> 257, ndist |-> 1, sound |-> TRUE, bits |-> 98,
     runs |-> <<<<1, 1>>, <<0, 255>>, <<1, 2>>>>],
    \* 9: 17 writes 6 zeros
    [data |-> <<5, 192, 33, 1, 0, 0, 0, 0, 16, 237, 255, 100, 2, 0, 0>>,
     nlit |-> 257, ndist |-> 1, sound |-> TRUE, bits |-> 98,
     runs |-> <<<<1, 1>>, <<0, 255>>, <<1, 2>>>>],
    \* 10: 17 writes 7 zeros
    [data |-> <<5, 192, 33, 1, 0, 0, 0, 0, 16, 241, 255, 99, 2, 0, 0>>,
     nlit |-> 257, ndist |-> 1, sound |-> TRUE, bits |-> 98,
     runs |-> <<<<1, 1>>, <<0, 255>>, <<1, 2>>>>],
    \* 11: 17 writes 8 zeros
    [data |-> <<5, 192, 33, 1, 0, 0, 0, 0, 16, 245, 255, 98, 2, 0, 0>>,
     nlit |-> 257, ndist |-> 1, sound |-> TRUE, bits |-> 98,
     runs |-> <<<<1, 1>>, <<0, 255>>, <<1, 2>>>>],
    \* 12: 17 writes 9 zeros
    [data |-> <<5, 192, 33, 1, 0, 0, 0, 0, 16, 249, 255, 97, 2, 0, 0>>,
     nlit |-> 257, ndist |-> 1, sound |-> TRUE, bits |-> 98,
     runs |-> <<<<1, 1>>, <<0, 255>>, <<1, 2>>>>],
    \* 13: 17 writes 10 zeros
    [data |-> <<5, 192, 33, 1, 0, 0, 0, 0, 16, 253, 255, 96, 2, 0, 0>>,
     nlit |-> 257, ndist |-> 1, sound |-> TRUE, bits |-> 98,
     runs |-> <<<<1, 1>>, <<0, 255>>, <<1, 2>>>>],
    \* 14: 18 writes 11 zeros
    [data |-> <<5, 192, 129, 0, 0, 0, 0, 0, 16, 1, 255, 191, 4, 0, 0>>,
     nlit |-> 257, ndist |-> 1, sound |-> TRUE, bits |-> 99,
     runs |-> <<<<1, 1>>, <<0, 255>>, <<1, 2>>>>],
    \* 15: 18 writes 12 zeros
    [data |-> <<5, 192, 129, 0, 0, 0, 0, 0, 16, 3, 255, 189, 4, 0, 0>>,
     nlit |-> 257, ndist |-> 1, sound |-> TRUE, bits |-> 99,
     runs |-> <<<<1, 1>>, <<0, 255>>, <<1, 2>>>>],
    \* 16: 18 writes 13 zeros
    [data |-> <<5, 192, 129, 0, 0, 0, 0, 0, 16, 5, 255, 187, 4, 0, 0>>,
     nlit |-> 257, ndist |-> 1, sound |-> TRUE, bits |-> 99,
     runs |-> <<<<1, 1>>, <<0, 255>>, <<1, 2>>>>],
    \* 17: 18 writes 74 zeros
    [data |-> <<5, 192, 129, 0, 0, 0, 0, 0, 16, 127, 255, 65, 4, 0, 0>>,
     nlit |-> 257, ndist |-> 1, sound |-> TRUE, bits |-> 99,
     runs |-> <<<<1, 1>>, <<0, 255>>, <<1, 2>>>>],
    \* 18: 18 writes 137 zeros
    [data |-> <<5, 192, 129, 0, 0, 0, 0, 0, 16, 253, 215, 4, 0, 0>>,
     nlit |-> 257, ndist |-> 1, sound |-> TRUE, bits |-> 91,
     runs |-> <<<<1, 1>>, <<0, 255>>, <<1, 2>>>>],
    \* 19: 18 writes 138 zeros
    [data |-> <<5, 192, 129, 0, 0, 0, 0, 0, 16, 255, 213, 4, 0, 0>>,
     nlit |-> 257, ndist |-> 1, sound |-> TRUE, bits |-> 91,
     runs |-> <<<<1, 1>>, <<0, 255>>, <<1, 2>>>>],
    \* 20: no repeat
    [data |-> <<237, 221, 129, 0, 0, 0, 0, 0, 16, 255, 213, 74, 140, 8, 0, 0>>,
     nlit |-> 286, ndist |-> 30, sound |-> TRUE, bits |-> 108,
     runs |-> <<<<1, 1>>, <<0, 255>>, <<1, 1>>, <<0, 29>>, <<1, 1>>, <<0, 28>>, <<1, 1>>>>],
    \* 21: 16 repeats a length of 8 3 times
    [data |-> <<237, 221, 7, 129, 0, 65, 16, 4, 161, 15, 84, 207, 250, 87, 124, 74, 48, 194, 7,
               0, 0>>,
     nlit |-> 286, ndist |-> 30, sound |-> TRUE, bits |-> 148,
     runs |-> <<<<8, 4>>, <<1, 1>>, <<2, 1>>, <<3, 1>>, <<4, 1>>, <<5, 1>>, <<0, 247>>, <<6,
                1>>, <<0, 29>>, <<1, 1>>, <<0, 28>>, <<1, 1>>>>],
    \* 22: 16 repeats a length of 8 4 times
    [data |-> <<237, 221, 9, 97, 4, 64, 16, 4, 161, 124, 84, 207, 158, 127, 193, 81, 130, 17,
               254, 1, 0, 0>>,
     nlit |-> 286, ndist |-> 30, sound |-> TRUE, bits |-> 153,
     runs |-> <<<<8, 5>>, <<1, 1>>, <<2, 1>>, <<3, 1>>, <<4, 1>>, <<5, 1>>, <<7, 1>>, <<0,
                245>>, <<8, 1>>, <<0, 29>>, <<1, 1>>, <<0, 28>>, <<1, 1>>>>],
    \* 23: 16 repeats a length of 8 5 times
    [data |-> <<237, 221, 7, 129, 4, 64, 16, 4, 161, 143, 84, 207, 250, 23, 124, 74, 48, 194, 7,
               0, 0>>,
     nlit |-> 286, ndist |-> 30, sound |-> TRUE, bits |-> 149,
     runs |-> <<<<8, 6>>, <<1, 1>>, <<2, 1>>, <<3, 1>>, <<4, 1>>, <<5, 1>>, <<0, 245>>, <<7,
                1>>, <<0, 29>>, <<1, 1>>, <<0, 28>>, <<1, 1>>>>],
    \* 24: 16 repeats a length of 8 6 times
    [data |-> <<237, 221, 7, 97, 0, 64, 16, 4, 161, 116, 102, 239, 253, 251, 141, 18, 140, 240,
               15, 0, 0>>,
     nlit |-> 286, ndist |-> 30, sound |-> TRUE, bits |-> 148,
     runs |-> <<<<8, 7>>, <<1, 1>>, <<2, 1>>, <<3, 1>>, <<4, 1>>, <<5, 1>>, <<0, 244>>, <<8,
                1>>, <<0, 29>>, <<1, 1>>, <<0, 28>>, <<1, 1>>>>],
    \* 25: 17 writes 3 zeros
    [data |-> <<237, 221, 161, 0, 0, 0, 0, 0, 160, 134, 191, 115, 36, 137, 20, 0, 0>>,
     nlit |-> 286, ndist |-> 30, sound |-> TRUE, bits |-> 117,
     runs |-> <<<<1, 1>>, <<0, 255>>, <<1, 1>>, <<0, 29>>, <<1, 1>>, <<0, 28>>, <<1, 1>>>>],
    \* 26: 17 writes 4 zeros
    [data |-> <<237, 221, 161, 0, 0, 0, 0, 0, 160, 142, 63, 115, 36, 137, 20, 0, 0>>,
     nlit |-> 286, ndist |-> 30, sound |-> TRUE, bits |-> 117,
     runs |-> <<<<1, 1>>, <<0, 255>>, <<1, 1>>, <<0, 29>>, <<1, 1>>, <<0, 28>>, <<1, 1>>>>],
    \* 27: 17 writes 5 zeros
    [data |-> <<237, 221, 161, 0, 0, 0, 0, 0, 160, 150, 191, 114, 36, 137, 20, 0, 0>>,
     nlit |-> 286, ndist |-> 30, sound |-> TRUE, bits |-> 117,
     runs |-> <<<<1, 1>>, <<0, 255>>, <<1, 1>>, <<0, 29>>, <<1, 1>>, <<0, 28>>, <<1, 1>>>>],
    \* 28: 17 writes 6 zeros
    [data |-> <<237, 221, 161, 0, 0, 0, 0, 0, 160, 158, 63, 114, 36, 137, 20, 0, 0>>,
     nlit |-> 286, ndist |-> 30, sound |-> TRUE, bits |-> 117,
     runs |-> <<<<1, 1>>, <<0, 255>>, <<1, 1>>, <<0, 29>>, <<1, 1>>, <<0, 28>>, <<1, 1>>>>],
    \* 29: 17 writes 7 zeros
    [data |-> <<237, 221, 161, 0, 0, 0, 0, 0, 160, 166, 191, 113, 36, 137, 20, 0, 0>>,
     nlit |-> 286, ndist |-> 30, sound |-> TRUE, bits |-> 117,
     runs |-> <<<<1, 1>>, <<0, 255>>, <<1, 1>>, <<0, 29>>, <<1, 1>>, <<0, 28>>, <<1, 1>>>>],
    \* 30: 17 writes 8 zeros
    [data |-> <<237, 221, 161, 0, 0, 0, 0, 0, 160, 174, 63, 113, 36, 137, 20, 0, 0>>,
     nlit |-> 286, ndist |-> 30, sound |-> TRUE, bits |-> 117,
     runs |-> <<<<1, 1>>, <<0, 255>>, <<1, 1>>, <<0, 29>>, <<1, 1>>, <<0, 28>>, <<1, 1>>>>],
    \* 31: 17 writes 9 zeros
    [data |-> <<237, 221, 161, 0, 0, 0, 0, 0, 160, 182, 191, 112, 36, 137, 20, 0, 0>>,
     nlit |-> 286, ndist |-> 30, sound |-> TRUE, bits |-> 117,
     runs |-> <<<<1, 1>>, <<0, 255>>, <<1, 1>>, <<0, 29>>, <<1, 1>>, <<0, 28>>, <<1, 1>>>>],
    \* 32: 17 writes 10 zeros
    [data |-> <<237, 221, 161, 0, 0, 0, 0, 0, 160, 190, 63, 112, 36, 137, 20, 0, 0>>,
     nlit |-> 286, ndist |-> 30, sound |-> TRUE, bits |-> 117,
     runs |-> <<<<1, 1>>, <<0, 255>>, <<1, 1>>, <<0, 29>>, <<1, 1>>, <<0, 28>>, <<1, 1>>>>],
    \* 33: 18 writes 11 zeros
    [data |-> <<237, 221, 129, 0, 0, 0, 0, 0, 16, 1, 255, 191, 74, 140, 8, 0, 0>>,
     nlit |-> 286, ndist |-> 30, sound |-> TRUE, bits |-> 116,
     runs |-> <<<<1, 1>>, <<0, 255>>, <<1, 1>>, <<0, 29>>, <<1, 1>>, <<0, 28>>, <<1, 1>>>>],
    \* 34: 18 writes 12 zeros
    [data |-> <<237, 221, 129, 0, 0, 0, 0, 0, 16, 3, 255, 189, 74, 140, 8, 0, 0>>,
     nlit |-> 286, ndist |-> 30, sound |-> TRUE, bits |-> 116,
     runs |-> <<<<1, 1>>, <<0, 255>>, <<1, 1>>, <<0, 29>>, <<1, 1>>, <<0, 28>>, <<1, 1>>>>],
    \* 35: 18 writes 13 zeros
    [data |-> <<237, 221, 129, 0, 0, 0, 0, 0, 16, 5, 255, 187, 74, 140, 8, 0, 0>>,
     nlit |-> 286, ndist |-> 30, sound |-> TRUE, bits |-> 116,
     runs |-> <<<<1, 1>>, <<0, 255>>, <<1, 1>>, <<0, 29>>, <<1, 1>>, <<0, 28>>, <<1, 1>>>>],
    \* 36: 18 writes 74 zeros
    [data |-> <<237, 221, 129, 0, 0, 0, 0, 0, 16, 127, 255, 65, 74, 140, 8, 0, 0>>,
     nlit |-> 286, ndist |-> 30, sound |-> TRUE, bits |-> 116,
     runs |-> <<<<1, 1>>, <<0, 255>>, <<1, 1>>, <<0, 29>>, <<1, 1>>, <<0, 28>>, <<1, 1>>>>],
    \* 37: 18 writes 137 zeros
    [data |-> <<237, 221, 129, 0, 0, 0, 0, 0, 16, 253, 215, 74, 140, 8, 0, 0>>,
     nlit |-> 286, ndist |-> 30, sound |-> TRUE, bits |-> 108,
     runs |-> <<<<1, 1>>, <<0, 255>>, <<1, 1>>, <<0, 29>>, <<1, 1>>, <<0, 28>>, <<1, 1>>>>],
    \* 38: 18 writes 138 zeros
    [data |-> <<237, 221, 129, 0, 0, 0, 0, 0, 16, 255, 213, 74, 140, 8, 0, 0>>,
     nlit |-> 286, ndist |-> 30, sound |-> TRUE, bits |-> 108,
     runs |-> <<<<1, 1>>, <<0, 255>>, <<1, 1>>, <<0, 29>>, <<1, 1>>, <<0, 28>>, <<1, 1>>>>],
    \* 39: no repeat
    [data |-> <<45, 223, 33, 1, 0, 0, 0, 0, 16, 255, 87, 75, 158, 8, 0, 0>>,
     nlit |-> 262, ndist |-> 32, sound |-> TRUE, bits |-> 108,
     runs |-> <<<<1, 1>>, <<0, 255>>, <<1, 1>>, <<0, 5>>, <<1, 1>>, <<0, 30>>, <<1, 1>>>>],
    \* 40: 16 repeats a length of 8 3 times
    [data |-> <<45, 223, 73, 129, 0, 65, 16, 4, 161, 61, 136, 172, 246, 175, 120, 94, 56, 225,
               3, 0, 0>>,
     nlit |-> 262, ndist |-> 32, sound |-> TRUE, bits |-> 147,
     runs |-> <<<<8, 4>>, <<1, 1>>, <<2, 1>>, <<3, 1>>, <<4, 1>>, <<5, 1>>, <<0, 247>>, <<6,
                1>>, <<0, 5>>, <<1, 1>>, <<0, 30>>, <<1, 1>>>>],
    \* 41: 16 repeats a length of 8 4 times
    [data |-> <<45, 223, 57, 97, 4, 64, 16, 4, 49, 127, 170, 158, 61, 254, 128, 29, 137, 137,
               254, 1, 0, 0>>,
     nlit |-> 262, ndist |-> 32, sound |-> TRUE, bits |-> 153,
     runs |-> <<<<8, 5>>, <<1, 1>>, <<2, 1>>, <<3, 1>>, <<4, 1>>, <<5, 1>>, <<7, 1>>, <<0,
                245>>, <<8, 1>>, <<0, 5>>, <<1, 1>>, <<0, 30>>, <<1, 1>>>>],
    \* 42: 16 repeats a length of 8 5 times
    [data |-> <<45, 223, 73, 129, 4, 64, 16, 4, 161, 61, 137, 172, 246, 47, 120, 94, 56, 225, 3,
               0, 0>>,
     nlit |-> 262, ndist |-> 32, sound |-> TRUE, bits |-> 148,
     runs |-> <<<<8, 6>>, <<1, 1>>, <<2, 1>>, <<3, 1>>, <<4, 1>>, <<5, 1>>, <<0, 245>>, <<7,
                1>>, <<0, 5>>, <<1, 1>>, <<0, 30>>, <<1, 1>>>>],
    \* 43: 16 repeats a length of 8 6 times
    [data |-> <<45, 223, 73, 97, 0, 64, 16, 4, 161, 220, 84, 207, 250, 247, 155, 23, 78, 248, 7,
               0, 0>>,
     nlit |-> 262, ndist |-> 32, sound |-> TRUE, bits |-> 147,
     runs |-> <<<<8, 7>>, <<1, 1>>, <<2, 1>>, <<3, 1>>, <<4, 1>>, <<5, 1>>, <<0, 244>>, <<8,
                1>>, <<0, 5>>, <<1, 1>>, <<0, 30>>, <<1, 1>>>>],
    \* 44: 17 writes 3 zeros
    [data |-> <<45, 223, 33, 1, 0, 0, 0, 0, 16, 225, 255, 103, 201, 19, 1, 0, 0>>,
     nlit |-> 262, ndist |-> 32, sound |-> TRUE, bits |-> 113,
     runs |-> <<<<1, 1>>, <<0, 255>>, <<1, 1>>, <<0, 5>>, <<1, 1>>, <<0, 30>>, <<1, 1>>>>],
    \* 45: 17 writes 4 zeros
    [data |-> <<45, 223, 33, 1, 0, 0, 0, 0, 16, 229, 255, 102, 201, 19, 1, 0, 0>>,
     nlit |-> 262, ndist |-> 32, sound |-> TRUE, bits |-> 113,
     runs |-> <<<<1, 1>>, <<0, 255>>, <<1, 1>>, <<0, 5>>, <<1, 1>>, <<0, 30>>, <<1, 1>>>>],
    \* 46: 17 writes 5 zeros
    [data |-> <<45, 223, 33, 1, 0, 0, 0, 0, 16, 233, 255, 101, 201, 19, 1, 0, 0>>,
     nlit |-> 262, ndist |-> 32, sound |-> TRUE, bits |-> 113,
     runs |-> <<<<1, 1>>, <<0, 255>>, <<1, 1>>, <<0, 5>>, <<1, 1>>, <<0, 30>>, <<1, 1>>>>],
    \* 47: 17 writes 6 zeros
    [data |-> <<45, 223, 33, 1, 0, 0, 0, 0, 16, 237, 255, 100, 201, 19, 1, 0, 0>>,
     nlit |-> 262, ndist |-> 32, sound |-> TRUE, bits |-> 113,
     runs |-> <<<<1, 1>>, <<0, 255>>, <<1, 1>>, <<0, 5>>, <<1, 1>>, <<0, 30>>, <<1, 1>>>>],
    \* 48: 17 writes 7 zeros
    [data |-> <<45, 223, 33, 1, 0, 0, 0, 0, 16, 241, 255, 99, 201, 19, 1, 0, 0>>,
     nlit |-> 262, ndist |-> 32, sound |-> TRUE, bits |-> 113,
     runs |-> <<<<1, 1>>, <<0, 255>>, <<1, 1>>, <<0, 5>>, <<1, 1>>, <<0, 30>>, <<1, 1>>>>],
    \* 49: 17 writes 8 zeros
    [data |-> <<45, 223, 33, 1, 0, 0, 0, 0, 16, 245, 255, 98, 201, 19, 1, 0, 0>>,
     nlit |-> 262, ndist |-> 32, sound |-> TRUE, bits |-> 113,
     runs |-> <<<<1, 1>>, <<0, 255>>, <<1, 1>>, <<0, 5>>, <<1, 1>>, <<0, 30>>, <<1, 1>>>>],
    \* 50: 17 writes 9 zeros
    [data |-> <<45, 223, 33, 1, 0, 0, 0, 0, 16, 249, 255, 97, 201, 19, 1, 0, 0>>,
     nlit |-> 262, ndist |-> 32, sound |-> TRUE, bits |-> 113,
     runs |-> <<<<1, 1>>, <<0, 255>>, <<1, 1>>, <<0, 5>>, <<1, 1>>, <<0, 30>>, <<1, 1>>>>],
    \* 51: 17 writes 10 zeros
    [data |-> <<45, 223, 33, 1, 0, 0, 0, 0, 16, 253, 255, 96, 201, 19, 1, 0, 0>>,
     nlit |-> 262, ndist |-> 32, sound |-> TRUE, bits |-> 113,
     runs |-> <<<<1, 1>>, <<0, 255>>, <<1, 1>>, <<0, 5>>, <<1, 1>>, <<0, 30>>, <<1, 1>>>>],
    \* 52: 18 writes 11 zeros
    [data |-> <<45, 223, 161, 0, 0, 0, 0, 0, 160, 0, 252, 125, 91, 153, 20, 0, 0>>,
     nlit |-> 262, ndist |-> 32, sound |-> TRUE, bits |-> 117,
     runs |-> <<<<1, 1>>, <<0, 255>>, <<1, 1>>, <<0, 5>>, <<1, 1>>, <<0, 30>>, <<1, 1>>>>],
    \* 53: 18 writes 12 zeros
    [data |-> <<45, 223, 161, 0, 0, 0, 0, 0, 160, 4, 252, 121, 91, 153, 20, 0, 0>>,
     nlit |-> 262, ndist |-> 32, sound |-> TRUE, bits |-> 117,
     runs |-> <<<<1, 1>>, <<0, 255>>, <<1, 1>>, <<0, 5>>, <<1, 1>>, <<0, 30>>, <<1, 1>>>>],
    \* 54: 18 writes 13 zeros
    [data |-> <<45, 223, 161, 0, 0, 0, 0, 0, 160, 8, 252, 117, 91, 153, 20, 0, 0>>,
     nlit |-> 262, ndist |-> 32, sound |-> TRUE, bits |-> 117,
     runs |-> <<<<1, 1>>, <<0, 255>>, <<1, 1>>, <<0, 5>>, <<1, 1>>, <<0, 30>>, <<1, 1>>>>],
    \* 55: 18 writes 74 zeros
    [data |-> <<45, 223, 161, 0, 0, 0, 0, 0, 160, 252, 252, 129, 90, 153, 20, 0, 0>>,
     nlit |-> 262, ndist |-> 32, sound |-> TRUE, bits |-> 117,
     runs |-> <<<<1, 1>>, <<0, 255>>, <<1, 1>>, <<0, 5>>, <<1, 1>>, <<0, 30>>, <<1, 1>>>>],
    \* 56: 18 writes 137 zeros
    [data |-> <<45, 223, 33, 1, 0, 0, 0, 0, 16, 251, 95, 75, 158, 8, 0, 0>>,
     nlit |-> 262, ndist |-> 32, sound |-> TRUE, bits |-> 108,
     runs |-> <<<<1, 1>>, <<0, 255>>, <<1, 1>>, <<0, 5>>, <<1, 1>>, <<0, 30>>, <<1, 1>>>>],
    \* 57: 18 writes 138 zeros
    [data |-> <<45, 223, 33, 1, 0, 0, 0, 0, 16, 255, 87, 75, 158, 8, 0, 0>>,
     nlit |-> 262, ndist |-> 32, sound |-> TRUE, bits |-> 108,
     runs |-> <<<<1, 1>>, <<0, 255>>, <<1, 1>>, <<0, 5>>, <<1, 1>>, <<0, 30>>, <<1, 1>>>>],
    \* 58: 16 repeats the length of symbol 256 into the distance lengths
    [data |-> <<5, 195, 7, 1, 0, 0, 0, 64, 176, 233, 95, 218, 49, 0, 0>>,
     nlit |-> 257, ndist |-> 4, sound |-> TRUE, bits |-> 102,
     runs |-> <<<<1, 1>>, <<2, 1>>, <<0, 254>>, <<2, 5>>>>],
    \* 59: HLIT + 257 = 287
    [data |-> <<245, 192, 129, 0, 0, 0, 0, 0, 16, 255, 213, 78, 4, 0, 0>>,
     nlit |-> 287, ndist |-> 1, sound |-> FALSE, bits |-> 99,
     runs |-> << >>],
    \* 60: HLIT + 257 = 287, with repeats
    [data |-> <<245, 221, 9, 97, 4, 64, 16, 4, 161, 124, 84, 207, 158, 127, 193, 113, 130, 17,
               254, 1, 0, 0>>,
     nlit |-> 287, ndist |-> 30, sound |-> FALSE, bits |-> 153,
     runs |-> << >>],
    \* 61: HLIT + 257 = 288
    [data |-> <<253, 192, 129, 0, 0, 0, 0, 0, 16, 255, 213, 82, 4, 0, 0>>,
     nlit |-> 288, ndist |-> 1, sound |-> FALSE, bits |-> 99,
     runs |-> << >>],
    \* 62: HLIT + 257 = 288, with repeats
    [data |-> <<253, 221, 9, 97, 4, 64, 16, 4, 161, 124, 84, 207, 158, 127, 193, 145, 130, 17,
               254, 1, 0, 0>>,
     nlit |-> 288, ndist |-> 30, sound |-> FALSE, bits |-> 153,
     runs |-> << >>],
    \* 63: 16 first, extra bits 0
    [data |-> <<5, 192, 3, 0, 0, 0, 0, 0, 144, 0, 0, 0>>,
     nlit |-> 257, ndist |-> 1, sound |-> FALSE, bits |-> 75,
     runs |-> << >>],
    \* 64: 16 first, extra bits 1
    [data |-> <<5, 0, 18, 64, 0, 0>>,
     nlit |-> 257, ndist |-> 1, sound |-> FALSE, bits |-> 32,
     runs |-> << >>],
    \* 65: 16 first, extra bits 2
    [data |-> <<5, 0, 18, 128, 0, 0>>,
     nlit |-> 257, ndist |-> 1, sound |-> FALSE, bits |-> 32,
     runs |-> << >>],
    \* 66: 16 first, extra bits 3
    [data |-> <<5, 0, 18, 192, 0, 0>>,
     nlit |-> 257, ndist |-> 1, sound |-> FALSE, bits |-> 32,
     runs |-> << >>],
    \* 67: 16 with extra bits 0 where 2 lengths are left
    [data |-> <<5, 192, 133, 0, 0, 0, 0, 0, 160, 252, 169, 7, 0, 0>>,
     nlit |-> 257, ndist |-> 1, sound |-> FALSE, bits |-> 93,
     runs |-> << >>],
    \* 68: 16 with extra bits 3 where 2 lengths are left
    [data |-> <<5, 192, 133, 0, 0, 0, 0, 0, 160, 252, 169, 31, 0, 0>>,
     nlit |-> 257, ndist |-> 1, sound |-> FALSE, bits |-> 93,
     runs |-> << >>],
    \* 69: 17 with extra bits 0 where 2 lengths are left
    [data |-> <<5, 192, 161, 0, 0, 0, 0, 0, 160, 252, 169, 7, 0, 0>>,
     nlit |-> 257, ndist |-> 1, sound |-> FALSE, bits |-> 94,
     runs |-> << >>],
    \* 70: 17 with extra bits 7 where 2 lengths are left
    [data |-> <<5, 192, 161, 0, 0, 0, 0, 0, 160, 252, 169, 63, 0, 0>>,
     nlit |-> 257, ndist |-> 1, sound |-> FALSE, bits |-> 94,
     runs |-> << >>],
    \* 71: 18 with extra bits 0 where 2 lengths are left
    [data |-> <<5, 192, 129, 0, 0, 0, 0, 0, 16, 255, 213, 1, 0, 0>>,
     nlit |-> 257, ndist |-> 1, sound |-> FALSE, bits |-> 96,
     runs |-> << >>],
    \* 72: 18 with extra bits 127 where 2 lengths are left
    [data |-> <<5, 192, 129, 0, 0, 0, 0, 0, 16, 255, 213, 255, 0, 0>>,
     nlit |-> 257, ndist |-> 1, sound |-> FALSE, bits |-> 96,
     runs |-> << >>],
    \* 73: 16 with extra bits 0 where 2 lengths are left
    [data |-> <<237, 221, 5, 1, 0, 0, 0, 0, 16, 255, 87, 91, 2, 0, 0, 0, 1, 0, 0>>,
     nlit |-> 286, ndist |-> 30, sound |-> FALSE, bits |-> 132,
     runs |-> << >>],
    \* 74: 16 with extra bits 3 where 2 lengths are left
    [data |-> <<237, 221, 5, 1, 0, 0, 0, 0, 16, 255, 87, 91, 2, 0, 0, 0, 13, 0, 0>>,
     nlit |-> 286, ndist |-> 30, sound |-> FALSE, bits |-> 132,
     runs |-> << >>],
    \* 75: 17 with extra bits 0 where 2 lengths are left
    [data |-> <<237, 221, 33, 1, 0, 0, 0, 0, 16, 255, 87, 91, 2, 0, 0, 0, 1, 0, 0>>,
     nlit |-> 286, ndist |-> 30, sound |-> FALSE, bits |-> 133,
     runs |-> << >>],
    \* 76: 17 with extra bits 7 where 2 lengths are left
    [data |-> <<237, 221, 33, 1, 0, 0, 0, 0, 16, 255, 87, 91, 2, 0, 0, 0, 29, 0, 0>>,
     nlit |-> 286, ndist |-> 30, sound |-> FALSE, bits |-> 133,
     runs |-> << >>],
    \* 77: 18 with extra bits 0 where 2 lengths are left
    [data |-> <<237, 221, 129, 0, 0, 0, 0, 0, 16, 255, 213, 74, 0, 0, 0, 32, 0, 0, 0>>,
     nlit |-> 286, ndist |-> 30, sound |-> FALSE, bits |-> 133,
     runs |-> << >>],
    \* 78: 18 with extra bits 127 where 2 lengths are left
    [data |-> <<237, 221, 129, 0, 0, 0, 0, 0, 16, 255, 213, 74, 0, 0, 0, 224, 31, 0, 0>>,
     nlit |-> 286, ndist |-> 30, sound |-> FALSE, bits |-> 133,
     runs |-> << >>]
  >>

RECURSIVE runLengths(_)
\* the code lengths that the runs stand for
runLengths(runs) ==
  IF runs = << >> THEN << >>
  ELSE [k \in 1..runs[1][2] |-> runs[1][1]] \o runLengths(Tail(runs))

\* the block read and where the reading is
dynBlock(b, at) ==
  [len |-> 0, dist |-> 0, base |-> << >>, at |-> at,
   nlit |-> b.nlit, ndist |-> b.ndist, sound |-> b.sound, bits |-> b.bits,
   lengths |-> runLengths(b.runs)]

InitDyn ==
  /\ \E i \in DOMAIN DynBlocks :
       /\ file = [data |-> DynBlocks[i].data, U |-> << >>, wellFormed |-> FALSE, tail |-> 0]
       /\ cp = dynBlock(DynBlocks[i], "idle")
  /\ f = NewReader(0)
  /\ pc = "dyn"
  /\ rr = ZeroReader
  /\ idx = << >>
  /\ buf = << >>
  /\ totalRead = 0
  /\ built = [isNil |-> TRUE, pts |-> << >>, err |-> ErrNil]
  /\ ex = NoExtract
  /\ live = << >>
  /\ out = << >>
  /\ calls = [c \in Calls |-> NoCall]

\* f.Step(f) where f.Step is NextBlock: the 3 header bits, readHuffman, the
\* assignment of Hl and Hd and huffmanBlock up to the end-of-block symbol
DynStart ==
  /\ pc = "dyn"
  /\ cp.at = "idle"
  /\ f.Step = "NextBlock"
  /\ f' = Step(file.data, f)
  /\ cp' = [cp EXCEPT !.at = "read"]
  /\ UNCHANGED <<file, pc, rr, idx, buf, totalRead, built, ex, live, out, calls>>

\* f.Step(f) after the block: the block was final
DynEnd ==
  /\ pc = "dyn"
  /\ cp.at = "read"
  /\ f.Err = ErrNil
  /\ f' = Step(file.data, f)
  /\ cp' = [cp EXCEPT !.at = "ended"]
  /\ UNCHANGED <<file, pc, rr, idx, buf, totalRead, built, ex, live, out, calls>>

NextDyn ==
  \/ DynStart
  \/ DynEnd

SpecDyn == InitDyn /\ [][NextDyn]_vars

(***************************************************************************)
(* The gzip header on its own: readHeader on headers with FHCRC set and    *)
(* every choice of the other optional fields, each absent, empty, or of 1  *)
(* or 2 bytes.  The two bytes stored as FHCRC are those RFC 1952 asks for  *)
(* (the low 16 bits of the CRC-32 of all the header bytes before them),    *)
(* the low 16 bits of the CRC-32 of the first 10 bytes, or the RFC's with  *)
(* one bit changed.                                                        *)
(***************************************************************************)
\* the contents tried for an optional field; Absent for a field left out
Absent == <<256>>
FieldValues == {Absent, << >>, <<120>>, <<120, 233>>}
HdrCrcKinds == {"whole", "fixed", "wrong"}

\* the flag byte of a header with FHCRC and the fields present
headerFlags(extra, name, comment) ==
  flagHdrCrc + (IF extra # Absent THEN flagExtra ELSE 0)
             + (IF name # Absent THEN flagName ELSE 0)
             + (IF comment # Absent THEN flagComment ELSE 0)

\* RFC 1952, 2.3: the header bytes before FHCRC
headerBefore(extra, name, comment) ==
  <<gzipID1, gzipID2, gzipDeflate, headerFlags(extra, name, comment), 0, 0, 0, 0, 0, 3>>
    \o (IF extra # Absent THEN <<Len(extra), 0>> \o extra ELSE << >>)
    \o (IF name # Absent THEN name \o <<0>> ELSE << >>)
    \o (IF comment # Absent THEN comment \o <<0>> ELSE << >>)

\* the low 16 bits of the CRC-32 of the bytes p
crc16(p) == crc32Update(U32(0), p)[2]

\* the 16 bits stored as FHCRC
storedCrc(before, kind) ==
  CASE kind = "whole" -> crc16(before)
    [] kind = "fixed" -> crc16(SubSeq(before, 1, 10))
    [] kind = "wrong" -> BitXor(crc16(before), 1)

\* the header, and 2 bytes after it
headerInput(before, kind) ==
  before \o <<storedCrc(before, kind) % 256, storedCrc(before, kind) \div 256>> \o <<3, 0>>

\* the header read: its bytes before FHCRC, the 16 bits stored, and the
\* position and error readHeader returned
headerCall(before, stored, at, pos, err) ==
  [len |-> 0, dist |-> 0, base |-> << >>, at |-> at,
   before |-> before, stored |-> stored, pos |-> pos, err |-> err]

InitHeader ==
  /\ \E extra \in FieldValues, name \in FieldValues, comment \in FieldValues,
        kind \in HdrCrcKinds :
       /\ file = [data |-> headerInput(headerBefore(extra, name, comment), kind),
                  U |-> << >>, wellFormed |-> FALSE, tail |-> 0]
       /\ cp = headerCall(headerBefore(extra, name, comment),
                          storedCrc(headerBefore(extra, name, comment), kind),
                          "idle", 0, ErrNil)
  /\ f = NewReader(0)
  /\ pc = "header"
  /\ rr = ZeroReader
  /\ idx = << >>
  /\ buf = << >>
  /\ totalRead = 0
  /\ built = [isNil |-> TRUE, pts |-> << >>, err |-> ErrNil]
  /\ ex = NoExtract
  /\ live = << >>
  /\ out = << >>
  /\ calls = [c \in Calls |-> NoCall]

\* readHeader has returned h
headerReturned(h) ==
  /\ rr' = h.z
  /\ cp' = [cp EXCEPT !.at = "returned", !.pos = h.pos, !.err = h.err]
  /\ UNCHANGED <<file, pc, f, idx, buf, totalRead, built, ex, live, out, calls>>

\* z.readHeader(true)
HeaderRead ==
  /\ pc = "header"
  /\ cp.at = "idle"
  /\ headerReturned(readHeader(file.data, rr, 0, TRUE))

NextHeader ==
  \/ HeaderRead

SpecHeader == InitHeader /\ [][NextHeader]_vars

(***************************************************************************)
(* The bit accumulator on its own, under the calls the decoder makes of    *)
(* moreBits: every caller asks for n bits in `for f.Nb < n`, n being 1+2,  *)
(* 5+5+4, 3, 2, 7, an extra-bits count of at most 13, or in huffSym h.Min  *)
(* or chunk & huffmanCountMask; then it drops n bits, huffSym the count of *)
(* the chunk it found, which is at most f.Nb.  The bytes are those of a    *)
(* file, taken as they come.                                               *)
(***************************************************************************)
\* the files the bits are taken from
BitsFrom == {12, 13}

InitBits ==
  /\ file \in {Files[i] : i \in BitsFrom}
  /\ pc = "bits"
  /\ rr = ZeroReader
  /\ f = NewReader(0)
  /\ idx = << >>
  /\ buf = << >>
  /\ totalRead = 0
  /\ built = [isNil |-> TRUE, pts |-> << >>, err |-> ErrNil]
  /\ ex = NoExtract
  /\ live = << >>
  /\ out = << >>
  /\ calls = [c \in Calls |-> NoCall]
  /\ cp = NoCopy

\* one round of `for f.Nb < n { moreBits }` of a caller that needs n bits
BitsFetch ==
  /\ pc = "bits"
  /\ f.Err = ErrNil
  /\ \E n \in 1..huffmanCountMask :
       /\ f.Nb < n
       /\ LET r == moreBits(file.data, f)
          IN f' = [r.f EXCEPT !.Err = r.err]
  /\ UNCHANGED <<file, pc, rr, idx, buf, totalRead, built, ex, live, out, calls, cp>>

\* f.B >>= n; f.Nb -= n, with n <= f.Nb as every caller has it
BitsTake ==
  /\ pc = "bits"
  /\ f.Err = ErrNil
  /\ \E n \in 0..huffmanCountMask :
       /\ n <= f.Nb
       /\ f' = dropBits(f, n)
  /\ UNCHANGED <<file, pc, rr, idx, buf, totalRead, built, ex, live, out, calls, cp>>

NextBits ==
  \/ BitsFetch
  \/ BitsTake

SpecBits == InitBits /\ [][NextBits]_vars

(***************************************************************************)
(* What the properties below speak of.                                     *)
(***************************************************************************)
\* the length of the uncompressed content
N == Len(file.U)

\* BuildIndex has returned an index and no error
indexBuilt == pc \in {"returned", "extracted"} /\ ~built.isNil

\* Extract has returned from a call on a well-formed file and the index
\* BuildIndex returned for it
extracted ==
  /\ pc = "extracted" /\ ~built.isNil /\ file.wellFormed
  /\ ~ex.idxNil /\ ex.idxLen = Len(built.pts)

\* the file position of the first byte of the DEFLATE payload: where the
\* header parser of BuildIndex stopped
payloadStart == live[1].R

\* a decoder state without the fields that hold references
plainFields(d) == [d EXCEPT !.ToRead = NoSlice, !.Hl = NilPtr, !.Hd = NilPtr]

\* the decoders d and e are in the same state: equal fields, nothing left to
\* hand out, and hl and hd both nil or both pointing at equal tables
sameState(d, e) ==
  /\ plainFields(d) = plainFields(e)
  /\ SliceLen(d.ToRead) = 0 /\ SliceLen(e.ToRead) = 0
  /\ (d.Hl = NilPtr) = (e.Hl = NilPtr)
  /\ (d.Hd = NilPtr) = (e.Hd = NilPtr)
  /\ d.Hl # NilPtr => DerefF(d, d.Hl) = DerefF(e, e.Hl)
  /\ d.Hd # NilPtr => DerefF(d, d.Hd) = DerefF(e, e.Hd)

RECURSIVE readAll(_, _, _)
RECURSIVE readAllNext(_, _, _)
\* what the Read calls with buffers of n bytes return, one after the other,
\* up to the first one that returns an error
readAll(data, d, n) == readAllNext(data, Read(data, d, n), n)

readAllNext(data, rd, n) ==
  IF rd.err # ErrNil THEN <<[bytes |-> rd.bytes, err |-> rd.err]>>
  ELSE <<[bytes |-> rd.bytes, err |-> rd.err]>> \o readAll(data, rd.f, n)

\* the decoder inflateResume builds from point k for the input at its r_offset
resumed(k) == inflateResume(payloadStart + idx[k].roffset, idx[k])

(***************************************************************************)
(* The properties.                                                         *)
(***************************************************************************)
\* C1: on a well-formed file and the index BuildIndex returned for it, for
\* 0 <= off <= N and 1 <= len <= N - off, Extract returns exactly the bytes
\* U[off..off+len] and a nil error.
C1_ExtractInRange ==
  (extracted /\ 0 <= ex.offset /\ ex.offset <= N
     /\ 1 <= ex.length /\ ex.length <= N - ex.offset)
  => /\ ~ex.panic
     /\ ex.err = ErrNil
     /\ ex.res = Slice(file.U, ex.offset, ex.offset + ex.length)

\* C2: for every point of the index, the decoder inflateResume builds for the
\* input at r_offset of the payload is in the state the live decoder had when
\* the point was taken, and its reads return, one for one and whatever the
\* size of the read, the bytes and the final error that the reads of the live
\* decoder return from there.
C2_ResumeSameState ==
  \A k \in 1..Len(idx) :
    /\ payloadStart + idx[k].roffset = live[k].R
    /\ sameState(resumed(k), live[k])
    /\ \A n \in 1..MaxHist :
         readAll(file.data, resumed(k), n) = readAll(file.data, live[k], n)

\* C2 witness: BuildIndex has returned an index with a point taken inside a
\* copy from the history and a later point
C2_PointInsideCopy ==
  /\ indexBuilt
  /\ Len(idx) >= 3
  /\ idx[2].step = "copyHuff" /\ idx[2].copyLen > 0

\* C3: the restored decoder's hl is its own h1 exactly when the live
\* decoder's hl was its own h1, and likewise hd and h2; a nil hl or hd is
\* restored as nil; one that pointed at the fixed table is restored as a table
\* of its own with the contents of the fixed table.
C3_TableIdentity ==
  \A k \in 1..Len(idx) :
    /\ (resumed(k).Hl = OwnH1) = (live[k].Hl = OwnH1)
    /\ (resumed(k).Hd = OwnH2) = (live[k].Hd = OwnH2)
    /\ live[k].Hl = NilPtr => resumed(k).Hl = NilPtr
    /\ live[k].Hd = NilPtr => resumed(k).Hd = NilPtr
    /\ live[k].Hl = FixedPtr => resumed(k).Hl = HeapPtr(fixedHuffmanDecoder)
    /\ live[k].Hl \notin {NilPtr, OwnH1}
         => /\ resumed(k).Hl \notin {NilPtr, OwnH1, OwnH2}
            /\ DerefF(resumed(k), resumed(k).Hl) = DerefF(live[k], live[k].Hl)
    /\ live[k].Hd \notin {NilPtr, OwnH2}
         => /\ resumed(k).Hd \notin {NilPtr, OwnH1, OwnH2}
            /\ DerefF(resumed(k), resumed(k).Hd) = DerefF(live[k], live[k].Hd)

\* C3 witness: an index with a point taken before any block (hl nil), one
\* inside a dynamic block (hl at h1, hd at h2) and one inside a fixed block
\* (hl at the fixed table, hd nil)
C3_AllTableKinds ==
  /\ Len(idx) = 3
  /\ live[1].Hl = NilPtr
  /\ live[2].Hl = OwnH1 /\ live[2].Hd = OwnH2
  /\ live[3].Hl = FixedPtr /\ live[3].Hd = NilPtr

\* C4: the position Extract seeks to, pt.roffset + headerBytes, is the
\* position the reader of BuildIndex had when the point was taken, for every
\* well-formed header.
C4_SeekTarget ==
  (extracted /\ ex.pt # 0)
  => /\ ex.headerBytes = payloadStart
     /\ ex.seek = live[ex.pt].R

\* C5: for 0 <= off < N and len > N - off, Extract returns exactly U[off..],
\* N - off bytes, and EOF (stated for the calls that seek to the right place).
C5_ShortResult ==
  (extracted /\ 0 <= ex.offset /\ ex.offset < N /\ ex.length > N - ex.offset
     /\ ex.headerBytes = payloadStart)
  => /\ ex.err = EOF
     /\ ex.res = Slice(file.U, ex.offset, N)

\* C6: for off >= N and len > 0, Extract returns an empty result and EOF
\* (stated for the calls that seek to the right place).
C6_PastEnd ==
  (extracted /\ ex.offset >= N /\ ex.length > 0 /\ ex.headerBytes = payloadStart)
  => /\ ex.err = EOF
     /\ ex.res = << >>

\* C7: an index BuildIndex returns is not empty; its first point is the
\* untouched decoder right after the header, with w_offset 0 and r_offset 0;
\* w_offset increases strictly and r_offset never decreases along the index.
C7_IndexShape ==
  indexBuilt
  => /\ Len(built.pts) >= 1
     /\ built.pts[1].woffset = 0 /\ built.pts[1].roffset = 0
     /\ live[1] = NewReader(payloadStart)
     /\ built.pts = addPoint(<< >>, live[1], 0) \o SubSeq(built.pts, 2, Len(built.pts))
     /\ \A k \in 1..(Len(built.pts) - 1) :
          /\ built.pts[k + 1].woffset > built.pts[k].woffset
          /\ built.pts[k + 1].roffset >= built.pts[k].roffset

\* C7 witness: BuildIndex has returned an index of three points
C7_ThreePoints == indexBuilt /\ Len(built.pts) = 3

\* C8: consecutive points are at least span uncompressed bytes apart, in the
\* index being built and in the index returned.
C8_SpanGap ==
  /\ \A k \in 1..(Len(idx) - 1) : idx[k + 1].woffset - idx[k].woffset >= span
  /\ \A k \in 1..(Len(built.pts) - 1) :
       built.pts[k + 1].woffset - built.pts[k].woffset >= span

\* C8 witness: an index returned with two gaps
C8_TwoGaps == indexBuilt /\ Len(built.pts) >= 3 /\ built.pts[3].woffset >= 2 * span

C10_NoPointAtEnd ==
  (indexBuilt /\ file.wellFormed /\ N > 0)
  => \A k \in 1..Len(built.pts) : built.pts[k].woffset # N

\* C11: BuildIndex returns an index and a nil error, or no index and an
\* error, never both; the error is the first error other than EOF that the
\* header parser, the decoder or the trailer check raised, unchanged; and on a
\* well-formed file it returns no error.
C11_IndexOrError ==
  pc \in {"returned", "extracted"}
  => /\ built.isNil = (built.err # ErrNil)
     /\ built.isNil => built.pts = << >>
     /\ gzipNewReader(file.data).err # ErrNil => built.err = gzipNewReader(file.data).err
     /\ f.Err \notin {ErrNil, EOF} => built.err = f.Err
     /\ rr.Err \notin {ErrNil, EOF} => built.err = rr.Err
     /\ file.wellFormed => built.err = ErrNil

\* C12: a call of Extract with an empty index, the nil Index or an Index of
\* no points, returns an empty result and no error for every offset and
\* length, and uses no access point.
C12_EmptyIndex ==
  (pc = "extracted" /\ file.wellFormed /\ ex.idxLen = 0)
  => /\ ~ex.panic
     /\ ex.res = << >> /\ ex.err = ErrNil
     /\ ex.pt = 0 /\ ex.seek = 0

\* C13: a call of Extract with length <= 0 returns an empty result and no
\* error for every offset and every index, and locates no point, reads no
\* header, seeks nowhere and builds no decoder.
C13_NoLength ==
  (pc = "extracted" /\ ex.length <= 0)
  => ex = [NoExtract EXCEPT !.offset = ex.offset, !.length = ex.length,
                            !.idxNil = ex.idxNil, !.idxLen = ex.idxLen, !.called = TRUE]

\* C13 witness: a call with a negative length, an offset past the end of the
\* content and an index of three points has returned
C13_NegativeLength ==
  /\ pc = "extracted"
  /\ ex.called /\ ex.length < 0 /\ ex.offset > N
  /\ ~ex.idxNil /\ ex.idxLen = 3

\* C14: a call of Extract with an index that has points and length > 0
\* returns without a crash for every offset, also for one below the w_offset
\* of every point, and dereferences no nil access point.
C14_LocateSafe ==
  (pc = "extracted" /\ file.wellFormed /\ ~ex.idxNil /\ ex.idxLen > 0 /\ ex.length > 0)
  => ~ex.panic

\* the holders x and y refer to one array
sharesArray(x, y) == \E a \in DOMAIN x : x[a] = y[a]

\* C15: no step changes a point that is in the index, neither a step of the
\* decoder of BuildIndex after the snapshot nor a step of an Extract call, and
\* two Extract calls with the same arguments return the same result.
C15_PointsImmutable ==
  [][/\ \A k \in 1..Len(idx) : Len(idx') >= k /\ idx'[k] = idx[k]
     /\ \A k \in 1..Len(built.pts) : built'.pts[k] = built.pts[k]
     /\ \A c, d \in Calls :
          (calls'[c].at = "done" /\ calls'[d].at = "done"
             /\ calls'[c].ex.offset = calls'[d].ex.offset)
          => calls'[c].ex = calls'[d].ex]_vars

\* C15 witness: the same call has returned twice; it located a point that was
\* taken inside a block, before BuildIndex decoded the rest, and it decoded
\* through a fill of the history window
C15_SameCallTwice ==
  /\ calls[1].at = "done" /\ calls[2].at = "done"
  /\ calls[1].ex.offset = calls[2].ex.offset
  /\ calls[1].ex.pt = 2 /\ Len(idx) = 3
  /\ calls[1].totalRead > 0 /\ calls[1].ex.err = ErrNil
  /\ calls[1].ex.fr.Hist # built.pts[2].hist

\* C16: in every interleaving each call returns what Extract returns when it
\* runs alone on the index, a call that has returned keeps its result, and the
\* decoder of a call in its read loop refers to no array of a point, of the
\* decoder of BuildIndex or of the decoder of another call.
C16_CallsIndependent ==
  [][\A c \in Calls :
       /\ (calls[c].at # "done" /\ calls'[c].at = "done")
            => calls'[c].ex = Extract(file.data, builtIndex, calls'[c].ex.offset, CallLength)
       /\ calls[c].at = "done" => calls'[c] = calls[c]
       /\ calls'[c].at = "reading"
            => /\ ~sharesArray(inflateResumeCells(c, calls'[c].ex.pt), NewReaderCells)
               /\ \A k \in 1..Len(built.pts) :
                    ~sharesArray(inflateResumeCells(c, calls'[c].ex.pt), addPointCells(k))
               /\ \A d \in Calls \ {c} :
                    calls'[d].at = "reading"
                    => ~sharesArray(inflateResumeCells(c, calls'[c].ex.pt),
                                    inflateResumeCells(d, calls'[d].ex.pt))]_vars

\* C16 witness: two calls are in their read loops at once, on decoders
\* restored from the same point, each with bytes read
C16_TwoCallsReading ==
  /\ calls[1].at = "reading" /\ calls[2].at = "reading"
  /\ calls[1].ex.pt = 2 /\ calls[2].ex.pt = 2
  /\ calls[1].totalRead > 0 /\ calls[2].totalRead > 0

(***************************************************************************)
(* The trailer.                                                            *)
(***************************************************************************)
\* C17: BuildIndex returns an index (the framer reported EOF) only by a step
\* in which gzReadBlock read the 8 bytes of the trailer and found its CRC-32
\* equal to the CRC-32 of the bytes emitted and its ISIZE equal to their
\* count.
C17_TrailerChecked ==
  [][(pc = "readSpan" /\ pc' = "returned" /\ ~built'.isNil)
       => /\ f'.R = f.R + 8
          /\ f'.R <= Len(file.data)
          /\ Get4(Slice(file.data, f.R, f.R + 4)) = crc32Update(U32(0), out)
          /\ Get4(Slice(file.data, f.R + 4, f.R + 8)) = U32(Len(out))]_vars

\* the header fields of a gzip.Reader
headerFields(z) == <<z.Flg, z.Extra, z.Name, z.Comment>>

\* C18: whatever follows the trailer of the first stream, BuildIndex returns
\* an index with a nil error; it read the file up to the end of that trailer
\* and no further, the header fields it holds are those of the first header,
\* the bytes emitted are those of the first stream and every point lies
\* within them.
C18_FirstStreamOnly ==
  (pc = "returned" /\ file.tail > 0)
    => /\ ~built.isNil
       /\ built.err = ErrNil
       /\ f.R = Len(file.data) - file.tail
       /\ headerFields(rr) = headerFields(gzipNewReader(file.data).z)
       /\ rr.Err = ErrNil
       /\ out = file.U
       /\ \A k \in 1..Len(built.pts) : built.pts[k].woffset <= Len(file.U)

\* BuildIndex has returned an index of two points or more for a file with
\* bytes after the trailer
C18_BytesAfterTrailer ==
  pc = "returned" /\ file.tail > 0 /\ ~built.isNil /\ Len(built.pts) >= 2

(***************************************************************************)
(* Errors of the decoder.                                                  *)
(***************************************************************************)
\* a read of n bytes and a readBlock on the decoder d return no byte and
\* d.Err, and leave d as it is
readsStick(d) ==
  /\ \A n \in 0..MaxHist : Read(file.data, d, n) = [f |-> d, bytes |-> << >>, err |-> d.Err]
  /\ readBlock(file.data, d) = [f |-> d, bytes |-> << >>, err |-> d.Err]

\* C19: for the Decompressor of BuildIndex and the one of Extract, whenever
\* Err is set (to EOF or to anything else) and ToRead is empty, every Read
\* and every readBlock returns zero bytes and that error and leaves every
\* field of the decoder as it was, so that the next call finds the same.
C19_ErrSticky ==
  \A d \in {f, ex.fr} : (d.Err # ErrNil /\ SliceLen(d.ToRead) = 0) => readsStick(d)

\* after BuildIndex met EOF, Extract has read its stream to EOF too
C19_BothAtEOF ==
  /\ pc = "extracted" /\ ex.called /\ ~ex.panic
  /\ f.Err = EOF /\ SliceLen(f.ToRead) = 0
  /\ ex.fr.Err = EOF /\ SliceLen(ex.fr.ToRead) = 0

(***************************************************************************)
(* The state of the decoder at an access point.                            *)
(***************************************************************************)
\* C20: every step of BuildIndex that adds a point (the first call of
\* addPoint and the one after each span) calls addPoint with a decoder whose
\* Woffset is the total that readSpan has returned so far, the n of the
\* call, and whose ToRead is empty; the point records that Woffset.
C20_AddPointInSync ==
  [][Len(idx') = Len(idx) + 1
       => /\ f'.Woffset = totalRead'
          /\ SliceLen(f'.ToRead) = 0
          /\ idx'[Len(idx')].woffset = totalRead'
          /\ totalRead' = Len(out')]_vars

\* BuildIndex has added a point after each of two spans
C20_ThreePoints ==
  pc = "readSpan" /\ Len(idx) >= 3 /\ totalRead >= 2 * span /\ f.Woffset = totalRead

(***************************************************************************)
(* Input that ends too early.                                              *)
(***************************************************************************)
\* C21: on a file that ends after its gzip header and before the end of its
\* trailer (inside a block, between blocks, before or inside the trailer),
\* BuildIndex returns no index and an error that is neither nil nor io.EOF.
C21_CutIsError ==
  (pc = "returned" /\ ~file.wellFormed /\ gzipNewReader(file.data).err = ErrNil)
    => built.isNil /\ built.err \notin {ErrNil, EOF}

(***************************************************************************)
(* The access point of a call.                                             *)
(***************************************************************************)
\* Extract has returned from a call with the index BuildIndex returned, a
\* length above 0 and an offset of 0 or more
locatedCall ==
  /\ pc = "extracted" /\ ~built.isNil
  /\ ~ex.idxNil /\ ex.idxLen = Len(built.pts)
  /\ ex.length > 0 /\ ex.offset >= 0

\* C22: such a call selected a point whose woffset is at most offset; no
\* point with woffset <= offset has a greater woffset or comes later in the
\* index, and every later point has woffset > offset.
C22_LastPointAtOrBefore ==
  locatedCall =>
    /\ ex.pt \in 1..Len(built.pts)
    /\ built.pts[ex.pt].woffset <= ex.offset
    /\ \A k \in 1..Len(built.pts) :
         /\ built.pts[k].woffset <= ex.offset
              => (k <= ex.pt /\ built.pts[k].woffset <= built.pts[ex.pt].woffset)
         /\ k > ex.pt => built.pts[k].woffset > ex.offset

\* a call that selected the second of three points, its offset past that point
C22_MiddlePoint ==
  /\ locatedCall /\ Len(built.pts) >= 3 /\ ex.pt = 2
  /\ ex.offset > built.pts[2].woffset

outputSoFar == out \o Slice(f.Hist, f.ToRead.lo, f.ToRead.hi) \o Slice(f.Hist, f.Hw, f.Hp)

\* the first n bytes of w are base, and each of the c bytes after them equals
\* the byte dist places before it
repeats(w, base, n, c, dist) ==
  /\ Len(w) = n + c
  /\ SubSeq(w, 1, n) = base
  /\ \A i \in (n + 1)..(n + c) : w[i] = w[i - dist]

\* C24: from the start of the copy of a back-reference (len, dist) on, the
\* output is the bytes before it followed by len - CopyLen bytes that each
\* equal the byte dist places earlier; CopyDist stays dist; a suspended copy
\* was stopped by a full history and resumes at copyHuff; and when the copy
\* is done CopyLen is 0, so exactly len bytes were appended.
C24_CopyRepeats ==
  (pc = "copy" /\ cp.at \in {"suspended", "done"})
    => /\ repeats(outputSoFar, cp.base, Len(cp.base), cp.len - f.CopyLen, cp.dist)
       /\ f.CopyDist = cp.dist
       /\ f.CopyLen >= 0
       /\ cp.at = "suspended" => (f.Step = "copyHuff" /\ f.Hp = 0 /\ f.Hfull)
       /\ cp.at = "done" => f.CopyLen = 0

\* a copy longer than the history and longer than its distance is done, its
\* source having started before the start of Hist
C24_WrappedAndSuspended ==
  /\ pc = "copy" /\ cp.at = "done"
  /\ cp.len > MaxHist /\ cp.dist = 3 /\ Len(cp.base) % MaxHist = 1
  /\ SliceLen(f.ToRead) = 0

\* the distances readDist decodes from the code with the extra bits `bits`
\* in the bit buffer
distOf(code, bits) == readDist(<< >>, [NewReader(0) EXCEPT !.B = bits, !.Nb = 13], code)

\* C25: readDist gives a distance of 1..32768 for the codes 0..29, whatever
\* the extra bits, and the corrupt-input error for the codes 30 and 31.  A
\* back-reference whose distance is above the number of bytes written so far
\* (not yet a whole history of them) or above the history size is turned
\* down with an error, CopyLen and CopyDist are not set and nothing is added
\* to the output: the error is CorruptInputError when the distance is within
\* the history size.  A back-reference that is copied has a distance of at
\* least 1, at most the history size and at most the number of bytes written
\* before it.
C25_DistanceChecked ==
  /\ \A code \in 0..29, bits \in {0, 1, Pow2(13) - 1} :
       /\ distOf(code, bits).err = ErrNil
       /\ distOf(code, bits).dist \in 1..Pow2(15)
  /\ \A code \in 30..31 : distOf(code, 0).err.kind = "CorruptInputError"
  /\ (pc = "copy" /\ cp.at # "idle")
       => /\ (cp.at = "rejected") = (cp.dist > MaxHist \/ cp.dist > Len(cp.base))
          /\ cp.at = "rejected"
               => /\ outputSoFar = cp.base
                  /\ f.CopyLen = 0 /\ f.CopyDist = 0
                  /\ cp.dist <= MaxHist => f.Err.kind = "CorruptInputError"
          /\ cp.at \in {"suspended", "done"}
               => /\ cp.dist >= 1 /\ cp.dist <= MaxHist /\ cp.dist <= Len(cp.base)
                  /\ f.CopyDist = cp.dist

\* a back-reference was turned down for a distance within the history size
\* and beyond the bytes written
C25_TooFarBack ==
  /\ pc = "copy" /\ cp.at = "rejected"
  /\ cp.dist <= MaxHist /\ cp.dist = Len(cp.base) + 1 /\ Len(cp.base) = 2

(***************************************************************************)
(* Block boundaries.                                                       *)
(***************************************************************************)
\* the decoder of BuildIndex is at a block boundary: readBlock is about to
\* call f.Step, which is NextBlock (readBlock calls it only with ToRead empty
\* and no error)
atBoundary ==
  /\ pc = "readSpan" /\ rr.Err = ErrNil
  /\ SliceLen(f.ToRead) = 0 /\ f.Err = ErrNil
  /\ f.Step = "NextBlock"

lessCopyLen(d) == [d EXCEPT !.CopyLen = 0]

\* the step from d to e left CopyLen as it was, or was a whole stored block
\* whose length dataBlock put in CopyLen
staleFrom(d, e) ==
  \/ e.CopyLen = d.CopyLen
  \/ /\ d.Step = "NextBlock"
     /\ e.CopyLen = e.Hp - d.Hp
     /\ e.B = 0 /\ e.Nb = 0

C27_WoffsetIsHwPlusDelivered ==
  \/ f.Woffset = f.Hw + Len(out)
  \/ f.Woffset = f.Hw + Len(out) + SliceLen(f.ToRead)

\* C27 amended: Woffset is the number of bytes flushed: those the consumer
\* has received plus those ToRead still holds.  Hw is not added to it: Hw is
\* Woffset modulo the history size, the place in Hist of the next byte to
\* flush.
C27_WoffsetIsFlushed ==
  /\ f.Woffset = Len(out) + SliceLen(f.ToRead)
  /\ f.Hw = f.Woffset % MaxHist

\* bytes were delivered, others are pending in ToRead, and Hw is not 0
C27_HwInsideHistory ==
  pc = "readSpan" /\ Len(out) > 0 /\ SliceLen(f.ToRead) > 0 /\ f.Hw > 0

\* v begins with w
isPrefix(w, v) == Len(w) <= Len(v) /\ SubSeq(v, 1, Len(w)) = w

\* C28: after every step of BuildIndex, Woffset is the number of bytes
\* readBlock has returned plus the number ToRead still holds; the output so
\* far (returned, pending and not yet flushed) only grows at its end, so that
\* each byte written to Hist goes through ToRead once and in the order
\* written, and on a well-formed file it is the start of the content; ToRead
\* ends where the unflushed bytes begin; and 0 <= Hw <= Hp < len(Hist).
C28_ExposedOnceInOrder ==
  [][/\ f'.Woffset = Len(out') + SliceLen(f'.ToRead)
     /\ isPrefix(out, out')
     /\ isPrefix(outputSoFar, outputSoFar')
     /\ file.wellFormed => isPrefix(outputSoFar', file.U)
     /\ SliceLen(f'.ToRead) > 0
          => (f'.ToRead.hi = f'.Hw \/ (f'.ToRead.hi = MaxHist /\ f'.Hw = 0))
     /\ 0 <= f'.Hw /\ f'.Hw <= f'.Hp /\ f'.Hp < MaxHist]_vars

\* the history has wrapped, bytes have been returned, others are pending in
\* ToRead after a flush that left Hw inside the history
C28_PendingAfterWrap ==
  /\ pc = "readSpan" /\ f.Hfull /\ Len(out) >= MaxHist
  /\ SliceLen(f.ToRead) > 0 /\ f.Hw > 0

\* the decoder is past the end of the final block
finalBlockEnded == f.Final /\ f.Step = "NextBlock" /\ f.Err = ErrNil

\* the input the decoder holds: its place in the file and its bit buffer
inputHeld(g) == <<g.R, g.Roffset, g.B, g.Nb>>

\* C29: the decoder's error becomes io.EOF only in a step taken after the
\* end of the final block with Hw = Hp and ToRead empty, when the bytes
\* readBlock has returned are all the bytes written to the history (on a
\* well-formed file, the whole content); and from the end of the final
\* block on no step of the decoder reads a block header or takes a byte of
\* input.
C29_EOFAfterAllDelivered ==
  [][/\ (pc = "readSpan" /\ f.Err # EOF /\ f'.Err = EOF)
          => /\ finalBlockEnded
             /\ f.Hw = f.Hp /\ SliceLen(f.ToRead) = 0
             /\ f'.Hw = f'.Hp /\ SliceLen(f'.ToRead) = 0
             /\ outputSoFar' = out' /\ out' = out
             /\ f'.Woffset = Len(out')
             /\ file.wellFormed => out' = file.U
     /\ (pc = "readSpan" /\ finalBlockEnded /\ f'.Err \in {ErrNil, EOF})
          => /\ inputHeld(f') = inputHeld(f)
             /\ f'.Final /\ f'.Step = "NextBlock"
             /\ file.wellFormed => f'.R = Len(file.data) - 8]_vars

\* EOF is reported after a last flush of fewer bytes than the history
\* holds, the history having wrapped before
C29_EOFAfterLastFlush ==
  /\ pc = "readSpan" /\ f.Err = EOF
  /\ f.Hfull /\ f.Hw > 0 /\ Len(out) > MaxHist

\* at most 7 bits, and no bit above them
partialByte(b, nb) == nb <= 7 /\ b < Pow2(nb)

\* C30: between the steps of the decoder and in every point of the index
\* the bit buffer holds at most 7 bits and nothing above them, and when the
\* decoder reports EOF on a file whose trailer follows the last block the
\* reader stands at the first byte of the trailer.
C30_PartialByteOnly ==
  /\ partialByte(f.B, f.Nb)
  /\ \A i \in 1..Len(idx) : partialByte(idx[i].b, idx[i].nb)
  /\ (pc = "readSpan" /\ f.Err = EOF /\ (file.wellFormed \/ file.tail > 0))
       => f.R = Len(file.data) - file.tail - 8

\* moreBits read a byte in this step
fetched == pc = "bits" /\ f'.Nb = f.Nb + 8

\* C31: the accumulator never holds 32 bits or more: moreBits is called with
\* Nb + 8 <= 32, the byte it reads lands whole above the Nb bits held
\* (B' = B + c * 2^Nb, nothing shifted out of the 32 bits), and B has no bit
\* above its Nb bits.
C31_NoBitShiftedOut ==
  [][/\ f'.Nb < 32
     /\ f'.B < Pow2(f'.Nb)
     /\ fetched => /\ f.Nb + 8 <= 32
                   /\ f'.B = f.B + At(file.data, f.R) * Pow2(f.Nb)
                   /\ f'.R = f.R + 1]_vars

\* the accumulator at its fullest: a byte fetched above 14 bits, a bit of it set
C31_FullestAccumulator ==
  /\ pc = "bits" /\ f.Nb = huffmanCountMask - 1 + 8 /\ f.B >= Pow2(f.Nb - 1)

\* the input bytes of the stored block that the decoder has read so far
storedSoFar == Slice(file.data, 1 + 4, f.Roffset)

\* C32: a stored block with a sound LEN, NLEN and all its bytes: while it is
\* suspended or done, the output so far is what was there before followed by
\* the input bytes read after NLEN, unchanged; a suspension is a flush at the
\* end of the history with the count left in CopyLen; when done, Roffset has
\* advanced by 4 + LEN from the byte of the header bits, all LEN bytes are
\* out and the step is NextBlock again; with LEN = 0 nothing is added and
\* what was pending is flushed.
C32_StoredBlockCopied ==
  (pc = "stored" /\ cp.at \in {"suspended", "done"} /\ storedWhole(file.data))
    => /\ f.Err = ErrNil
       /\ f.R = f.Roffset
       /\ outputSoFar = cp.base \o storedSoFar
       /\ cp.at = "suspended"
            => /\ cp.len > 0
               /\ f.CopyLen = cp.len - (f.Roffset - (1 + 4))
               /\ f.Hp = 0 /\ f.Hw = 0 /\ f.Hfull
               /\ f.ToRead.hi = MaxHist
       /\ cp.at = "done"
            => /\ f.Roffset = 1 + 4 + cp.len
               /\ storedSoFar = storedBytes(cp.len)
               /\ f.Step = "NextBlock"
       /\ (cp.at = "done" /\ cp.len = 0)
            => /\ f.Hw = f.Hp
               /\ out \o Slice(f.Hist, f.ToRead.lo, f.ToRead.hi) = cp.base

\* a block longer than the history, begun inside the history, is done and
\* read out
C32_LongBlockDone ==
  /\ pc = "stored" /\ cp.at = "done" /\ storedWhole(file.data)
  /\ cp.len > MaxHist /\ Len(cp.base) % MaxHist # 0
  /\ SliceLen(f.ToRead) = 0 /\ Len(out) > Len(cp.base) + MaxHist

\* the input has the reserved block type; it is a stored block whose NLEN is
\* not the complement of LEN
typeThree == storedType(file.data) = 3
badNlen ==
  /\ storedType(file.data) = 0
  /\ Len(file.data) >= 5
  /\ storedNlen(file.data) # 65535 - storedLen(file.data)

\* the decoder stopped with CorruptInputError(off) after off bytes of input,
\* nothing was added to the output, and a Read that finds ToRead empty
\* returns no byte and that error
corruptAt(off) ==
  /\ cp.at = "rejected"
  /\ f.Err = CorruptInputError(off)
  /\ f.Roffset = off /\ f.R = off
  /\ outputSoFar = cp.base
  /\ SliceLen(f.ToRead) = 0
       => Read(file.data, f, 1) = [f |-> f, bytes |-> << >>, err |-> CorruptInputError(off)]

\* C33: once NextBlock has run on a block of the reserved type 3, the decoder
\* holds CorruptInputError with the offset of the byte of the header bits
\* read (1); on a stored block whose NLEN is not the complement of LEN, with
\* the offset after LEN and NLEN (1 + 4); no byte of the block is put out
\* and the next Read that finds ToRead empty returns the error.
C33_CorruptAtOffset ==
  (pc = "stored" /\ cp.at # "idle")
    => /\ typeThree => corruptAt(1)
       /\ badNlen => corruptAt(1 + 4)

\* a stored block of some bytes with a wrong NLEN, after some output, is
\* turned down
C33_WrongNlenTurnedDown ==
  /\ pc = "stored" /\ cp.at = "rejected" /\ badNlen
  /\ cp.len > 0 /\ Len(cp.base) > MaxHist /\ f.Hw < f.Hp

\* the bits of input the decoder g has used up: the bytes read less the bits
\* still in the accumulator
bitsTaken(g) == 8 * g.R - g.Nb

\* readBlock called f.Step in this step
stepped ==
  /\ pc = "readSpan" /\ pc' = "readSpan"
  /\ SliceLen(f.ToRead) = 0 /\ f.Err = ErrNil /\ f' # f

\* C34: no step of the decoder leaves it where it was with respect to the
\* input: a step ends in an error or EOF, or uses up at least one bit of
\* input, or goes on with a copy that was suspended (less left to copy, or
\* the copy done), or is the flush after the final block.  As the input is
\* finite and a copy is at most 258 bytes long, BuildIndex then terminates.
C34_StepTakesInput ==
  [][stepped
       => \/ f'.Err # ErrNil
          \/ bitsTaken(f') > bitsTaken(f)
          \/ f.Step = "copyHuff" /\ (f'.Step # "copyHuff" \/ f'.CopyLen < f.CopyLen)
          \/ f.Step = "copyData" /\ f'.Step = "NextBlock"
          \/ finalBlockEnded /\ f.Hw # f.Hp /\ f'.Hw = f'.Hp]_vars

\* what a read returned: bytes and no error, or no byte and an error
someBytesOrError(r) ==
  \/ r.err = ErrNil /\ Len(r.bytes) > 0
  \/ r.err # ErrNil /\ Len(r.bytes) = 0

\* the decoder is before an empty stored block with nothing left to flush
beforeEmptyFlush ==
  /\ pc = "stored" /\ cp.at = "idle" /\ storedWhole(file.data)
  /\ storedLen(file.data) = 0 /\ f.Hw = f.Hp /\ SliceLen(f.ToRead) = 0

\* C35: wherever the decoder stands, Read with a buffer of 1..len(Hist) bytes
\* and readBlock return at least one byte and a nil error, or no byte and
\* the decoder's error; the bytes are those ToRead held or was given by the
\* steps taken; before an empty stored block with nothing to flush, the
\* flush of no bytes is not returned: the call goes on to the next block.
C35_NoEmptyRead ==
  pc = "stored"
    => /\ \A n \in 1..MaxHist :
            /\ someBytesOrError(Read(file.data, f, n))
            /\ Len(Read(file.data, f, n).bytes) <= n
       /\ someBytesOrError(readBlock(file.data, f))
       /\ Read(file.data, f, MaxHist).bytes = readBlock(file.data, f).bytes
       /\ beforeEmptyFlush => readBlock(file.data, f).f.Roffset > 1 + 4

\* an empty stored block has flushed no byte, after a wrap of the history:
\* ToRead is empty and there is no error
C35_FlushedNothing ==
  /\ pc = "stored" /\ cp.at = "done" /\ cp.len = 0
  /\ SliceLen(f.ToRead) = 0 /\ f.Err = ErrNil
  /\ f.Hfull /\ Len(out) > MaxHist

\* huffSym has returned without an error
symRead == pc = "sym" /\ cp.at = "returned" /\ cp.err = ErrNil

\* Min is the smallest code length that is not zero
minIsSmallest ==
  /\ \E i \in coded(cp.lengths) : At(cp.lengths, i) = f.H1.Min
  /\ \A i \in coded(cp.lengths) : At(cp.lengths, i) >= f.H1.Min

\* the input began with a code word: huffSym returned its symbol and took
\* as many bits as the code word is long
codeWordRead ==
  \A i \in symsAt(cp.lengths, cp.bits16) :
    /\ cp.err = ErrNil
    /\ cp.v = i
    /\ bitsTaken(f) = At(cp.lengths, i)

\* C36: the table init built has Min the smallest non-zero code length; when
\* the input begins with a code word of the canonical code, huffSym returns
\* that symbol and takes exactly the bits of the code word, whether it is in
\* the direct table or behind a link; and every huffSym that returns without
\* an error has taken at least one bit.
C36_SymbolAndLength ==
  /\ pc = "sym" => minIsSmallest
  /\ (pc = "sym" /\ cp.at = "returned") => codeWordRead
  /\ symRead => bitsTaken(f) >= 1

\* the first two parts of C36 alone
C36_CodeWordsDecoded ==
  /\ pc = "sym" => minIsSmallest
  /\ (pc = "sym" /\ cp.at = "returned") => codeWordRead

\* the back-reference has been read whole and handed to the copy
handed == pc = "ref" /\ cp.at = "handed"

\* the length and the distance are those of RFC 1951, 3.2.5, within their ranges
lengthPerRFC ==
  /\ cp.len = rfcLengthBase[cp.sym - 256] + cp.lx
  /\ cp.len >= 3
  /\ cp.len <= 258
distPerRFC ==
  /\ cp.dc <= 29
  /\ cp.dist = rfcDistBase[cp.dc + 1] + cp.dx
  /\ cp.dist >= 1
  /\ cp.dist <= 32768

\* C37: a back-reference that huffmanBlock hands to the copy comes from a
\* length symbol 257..285 and a distance code 0..29; its length is the base
\* of the symbol plus its extra bits (258 and none for 285), within 3..258;
\* its distance is the base of the code plus its extra bits (1..4 for the
\* codes 0..3), within 1..32768; the bits read are those of the
\* back-reference; a distance code of 30 or 31 ends in a corrupt-input error.
C37_LengthAndDistance ==
  /\ handed
       => /\ cp.sym \in 257..285
          /\ cp.v = cp.sym
          /\ lengthPerRFC
          /\ distPerRFC
          /\ bitsTaken(f) = refBits(cp.sym, cp.dc)
  /\ (pc = "ref" /\ cp.at = "failed")
       => /\ cp.dc >= 30
          /\ f.Err = CorruptInputError(f.Roffset)

\* C37 for the length symbols the RFC has
C37_KnownSymbols ==
  /\ (handed /\ cp.sym <= 285)
       => /\ cp.v = cp.sym
          /\ lengthPerRFC
          /\ distPerRFC
          /\ bitsTaken(f) = refBits(cp.sym, cp.dc)
  /\ (pc = "ref" /\ cp.at = "failed")
       => /\ cp.dc >= 30
          /\ f.Err = CorruptInputError(f.Roffset)
  /\ (pc = "ref" /\ cp.dc >= 30) => cp.at # "handed"

\* the code built by init from the lengths lo <= i < hi of the header
codeOf(lo, hi) == HuffmanInit(ZeroHuffman, Slice(cp.lengths, lo, hi)).h

\* the same code: the same direct table, links and shortest length
sameCode(h, g) ==
  /\ h.Min = g.Min
  /\ h.Chunks = g.Chunks
  /\ h.Links = g.Links
  /\ h.LinkMask = g.LinkMask

\* the header of the dynamic block has been read
headerRead == pc = "dyn" /\ cp.at = "read"

\* C38: readHuffman turns a header with HLIT + 257 above 286 down; from a
\* sound header it unpacks the HLIT + 257 + HDIST + 1 lengths the header
\* stands for (plain lengths, 16 repeating the length before it 3..6 times,
\* 17 and 18 writing 3..10 and 11..138 zeros) and no bit more, builds H1 from
\* the first HLIT + 257 of them and H2 from the rest, and the block is
\* decoded with Hl = H1 and Hd = H2; a 16 with no length before it and a
\* run past the last length are corrupt input.
C38_HeaderUnpacked ==
  headerRead
    => /\ cp.nlit > MaxLit => f.Err = CorruptInputError(f.Roffset)
       /\ ~cp.sound => f.Err = CorruptInputError(f.Roffset)
       /\ cp.sound
            => /\ f.Err = ErrNil
               /\ Slice(f.Bits, 0, cp.nlit + cp.ndist) = cp.lengths
               /\ sameCode(f.H1, codeOf(0, cp.nlit))
               /\ sameCode(f.H2, codeOf(cp.nlit, cp.nlit + cp.ndist))
               /\ f.Hl = OwnH1
               /\ f.Hd = OwnH2
               /\ bitsTaken(f) = cp.bits
               /\ f.Step = "NextBlock"

\* a sound header with the longest run of zeros and 32 distance lengths is read
C38_LongestRunRead ==
  /\ headerRead
  /\ cp.sound
  /\ cp.ndist = MaxDist
  /\ \E i \in 0..(cp.nlit - 138) : \A k \in i..(i + 137) : At(cp.lengths, k) = 0
  /\ f.Hl = OwnH1

\* readHeader has returned
headerDone == pc = "header" /\ cp.at = "returned"

\* the 16 bits stored are the low 16 bits of the CRC-32 of all the header
\* bytes before them
crcOfWhole == cp.stored = crc16(cp.before)

\* the header has none of FEXTRA, FNAME and FCOMMENT
fixedOnly == Len(cp.before) = 10

\* C39: with FHCRC set, readHeader accepts the header exactly when the 16
\* bits stored equal the low 16 bits of the CRC-32 of all the header bytes
\* before them, the 10 fixed bytes and those of FEXTRA, FNAME and FCOMMENT,
\* whichever of these fields are present; otherwise it returns ErrHeader.
C39_HeaderCrcChecked ==
  headerDone
    => /\ crcOfWhole => cp.err = ErrNil /\ cp.pos = Len(cp.before) + 2
       /\ ~crcOfWhole => cp.err = ErrHeader

\* what readHeader does: the 16 bits are held against the CRC-32 of the 10
\* fixed bytes
C39_FixedBytesOnly ==
  headerDone
    => /\ cp.stored = crc16(SubSeq(cp.before, 1, 10))
            => cp.err = ErrNil /\ cp.pos = Len(cp.before) + 2
       /\ cp.stored # crc16(SubSeq(cp.before, 1, 10)) => cp.err = ErrHeader

(***************************************************************************)
(* The bytes Extract discards.                                             *)
(***************************************************************************)
\* offset - pt.woffset: the bytes of b before b[offset-pt.woffset:], decoded
\* from the point on and not returned
discard == ex.offset - built.pts[ex.pt].woffset

\* C40: a call of Extract with 0 <= offset < N on the index BuildIndex
\* returned locates a point, and the number of bytes it decodes and then
\* discards, offset - pt.woffset, is at least 0 and at most span - 1.
C40_DiscardBelowSpan ==
  (locatedCall /\ ex.offset < N)
    => /\ ex.pt \in 1..Len(built.pts)
       /\ discard >= 0
       /\ discard <= span - 1
       /\ ~ex.panic

\* a call that started at the second point and discarded span - 1 bytes
C40_LongestDiscard ==
  /\ locatedCall /\ ex.offset < N
  /\ ex.pt = 2
  /\ discard = span - 1
  /\ ex.err = ErrNil

=============================================================================
